---- MODULE Spec2Model ----
(***************************************************************************)
(* rallycal: the circuit breaker (utils/circuit_breaker.py), the fetch     *)
(* coordinator (services/fetcher.py), the event model (models/event.py),   *)
(* the deduplicator (utils/deduplicator.py), the event processor           *)
(* (services/processor.py) and the iCal generator (generators/ical.py).    *)
(*                                                                         *)
(* Spec          one CircuitBreaker shared by several coroutines; a call   *)
(*               is two steps, split at `await func(...)`.                 *)
(* SpecFetch     repeated fetch_multiple_calendars cycles, one task per    *)
(*               source, split at the awaits of the transport.             *)
(* SpecEvent     EventModel objects: construction, assignment of a field,  *)
(*               the merge of two overlapping events.                      *)
(* SpecDedup     EventDeduplicator(...) and find_duplicates.               *)
(* SpecProcessor EventProcessor.process_events.                            *)
(* SpecICal      ICalGenerator: generate_calendar, then validate_calendar  *)
(*               on the text it returned.                                  *)
(* SpecFilter    CalendarFetcher._should_include_event on a parsed event.  *)
(* SpecRegistry  CircuitBreakerRegistry: breakers by name, their calls,    *)
(*               cleanup_inactive.                                         *)
(* SpecOverlaps  EventProcessor.detect_overlapping_events.                 *)
(***************************************************************************)
EXTENDS Integers, Sequences, FiniteSets, Bags, TLC

\* ------------------------------------------------------------------ bounds
MaxThreshold == 2
MaxRecovery == 2
MaxTime == 2
MaxRequests == 3
MaxCallers == 2
MaxCycles == 6
MaxLimit == 2
MaxInstant == 2
MaxNew == 3
MaxExisting == 1
MaxEncoded == 2
MaxCall == 3
MaxHours == 2
MaxOverlapping == 3
MaxChanges == 2

\* ------------------------------------------------- exception class hierarchy
\* The parent of each exception class (single inheritance), "object" at the root.
ExcParent ==
  [ BaseException          |-> "object",
    Exception              |-> "BaseException",
    CancelledError         |-> "BaseException",
    ValueError             |-> "Exception",
    CircuitBreakerError    |-> "Exception",
    CalendarFetchError     |-> "Exception",
    AuthenticationError    |-> "CalendarFetchError",
    TimeoutError           |-> "CalendarFetchError",
    ParsingError           |-> "CalendarFetchError",
    HTTPError              |-> "Exception",
    RequestError           |-> "HTTPError",
    TimeoutException       |-> "RequestError",
    ConnectError           |-> "RequestError",
    HTTPStatusError        |-> "HTTPError",
    RetryError             |-> "Exception" ]

ExcClasses == DOMAIN ExcParent

RECURSIVE IsInstance(_, _)
\* isinstance(e, cls) for an exception of class e; "None" is no exception.
IsInstance(e, cls) ==
  IF e = cls THEN TRUE
  ELSE IF e \notin ExcClasses THEN FALSE
  ELSE IsInstance(ExcParent[e], cls)

\* ------------------------------------------------------------ circuit breaker
CLOSED == "closed"
OPEN == "open"
HALF_OPEN == "half_open"
CircuitState == {CLOSED, OPEN, HALF_OPEN}

\* Optional[datetime]: None is the empty tuple, an instant t is <<t>>.
None == << >>
At(t) == << t >>

\* CircuitBreaker.__init__
CircuitBreaker(threshold, timeout, expected) ==
  [ failure_threshold  |-> threshold,
    recovery_timeout   |-> timeout,
    expected_exception |-> expected,
    state              |-> CLOSED,
    failure_count      |-> 0,
    last_failure_time  |-> None,
    last_success_time  |-> None,
    total_requests     |-> 0,
    total_failures     |-> 0,
    total_successes    |-> 0,
    state_changes      |-> 0 ]

\* should_attempt_reset with the comparison strict: a call made exactly
\* recovery_timeout seconds after the last failure is still rejected.
should_attempt_reset_Strict(b, t) ==
  IF b.last_failure_time = None THEN TRUE
  ELSE t - b.last_failure_time[1] > b.recovery_timeout

\* CircuitBreaker._should_attempt_reset, read at clock t
should_attempt_reset(b, t) ==
  IF b.last_failure_time = None THEN TRUE
  ELSE t - b.last_failure_time[1] >= b.recovery_timeout

\* CircuitBreaker._transition_to_half_open
transition_to_half_open(b) ==
  [b EXCEPT !.state = HALF_OPEN, !.state_changes = @ + 1]

\* CircuitBreaker._close_circuit
close_circuit(b) ==
  [b EXCEPT !.state = CLOSED, !.failure_count = 0, !.state_changes = @ + 1]

\* CircuitBreaker.reset
reset(self) ==
  [self EXCEPT !.state = CLOSED, !.failure_count = 0, !.state_changes = @ + 1]

\* CircuitBreaker._open_circuit
open_circuit(b) ==
  [b EXCEPT !.state = OPEN, !.state_changes = @ + 1]

\* CircuitBreaker._on_success, at clock t
on_success(b, t) ==
  LET b1 == [b EXCEPT !.total_successes = @ + 1, !.last_success_time = At(t)]
  IN  IF b1.state = HALF_OPEN THEN close_circuit(b1)
      ELSE IF b1.state = CLOSED THEN [b1 EXCEPT !.failure_count = 0]
      ELSE b1

\* on_failure opening one failure late (> instead of >=).
on_failure_OneLate(b, t) ==
  LET b1 == [b EXCEPT !.total_failures = @ + 1,
                      !.failure_count = @ + 1,
                      !.last_failure_time = At(t)]
  IN  IF b1.state = HALF_OPEN THEN open_circuit(b1)
      ELSE IF b1.state = CLOSED /\ b1.failure_count > b1.failure_threshold
           THEN open_circuit(b1)
      ELSE b1

\* CircuitBreaker._on_failure, at clock t
on_failure(b, t) ==
  LET b1 == [b EXCEPT !.total_failures = @ + 1,
                      !.failure_count = @ + 1,
                      !.last_failure_time = At(t)]
  IN  IF b1.state = HALF_OPEN THEN open_circuit(b1)
      ELSE IF b1.state = CLOSED /\ b1.failure_count >= b1.failure_threshold
           THEN open_circuit(b1)
      ELSE b1

\* CircuitBreaker.call up to `await func(...)`: the breaker afterwards and
\* whether the wrapped operation is invoked (FALSE: CircuitBreakerError).
call_enter(b, t) ==
  LET b1 == [b EXCEPT !.total_requests = @ + 1]
  IN  IF b1.state = OPEN
      THEN IF should_attempt_reset(b1, t)
           THEN [cb |-> transition_to_half_open(b1), invoke |-> TRUE]
           ELSE [cb |-> b1, invoke |-> FALSE]
      ELSE [cb |-> b1, invoke |-> TRUE]

\* call_exit counting every exception as a failure, expected or not.
call_exit_CountsAll(b, t, raised) ==
  IF raised = "None" THEN on_success(b, t) ELSE on_failure(b, t)

\* CircuitBreaker.call from the return of the wrapped operation: raised is
\* "None" when it returned, else the class of the exception it raised.
call_exit(b, t, raised) ==
  IF raised = "None" THEN on_success(b, t)
  ELSE IF IsInstance(raised, b.expected_exception) THEN on_failure(b, t)
  ELSE b

\* ------------------------------------------------------------ fetch coordinator
\* stop_after_attempt(3) of fetch_calendar's retry decorator
StopAfterAttempt == 3
\* failure_threshold of a breaker made by CircuitBreakerRegistry.get_or_create
FailureThreshold == 5
\* recovery_timeout of a breaker made by CircuitBreakerRegistry.get_or_create
RecoveryTimeout == 60

\* The documents a source can answer with: is the text blank, does it hold the
\* BEGIN:VCALENDAR / END:VCALENDAR markers, does Calendar.from_ical accept it,
\* and the events parse_calendar_events yields from it.
Body ==
  [ blank     |-> [blank |-> TRUE,  begin |-> FALSE, end |-> FALSE, parses |-> FALSE, events |-> << >>],
    html      |-> [blank |-> FALSE, begin |-> FALSE, end |-> FALSE, parses |-> FALSE, events |-> << >>],
    truncated |-> [blank |-> FALSE, begin |-> TRUE,  end |-> FALSE, parses |-> FALSE, events |-> << >>],
    headless  |-> [blank |-> FALSE, begin |-> FALSE, end |-> TRUE,  parses |-> FALSE, events |-> << >>],
    garbled   |-> [blank |-> FALSE, begin |-> TRUE,  end |-> TRUE,  parses |-> FALSE, events |-> << >>],
    cal0      |-> [blank |-> FALSE, begin |-> TRUE,  end |-> TRUE,  parses |-> TRUE,  events |-> << >>],
    cal1      |-> [blank |-> FALSE, begin |-> TRUE,  end |-> TRUE,  parses |-> TRUE,  events |-> << "e1" >>],
    cal2      |-> [blank |-> FALSE, begin |-> TRUE,  end |-> TRUE,  parses |-> TRUE,  events |-> << "e1", "e2" >>] ]

\* What self._client.get does for one request: raises exc, or answers with a
\* status code and a body.
Raises(x) == [exc |-> x, status |-> 0, body |-> "blank"]
Answers(code, b) == [exc |-> "None", status |-> code, body |-> b]
NoResponse == Answers(0, "blank")
Responses ==
  { Raises("TimeoutException"), Raises("ConnectError"),
    Answers(401, "html"), Answers(304, "blank"), Answers(500, "html") }
  \cup { Answers(200, b) : b \in DOMAIN Body }

\* CalendarFetcher._is_valid_calendar_content
is_valid_calendar_content(b) ==
  IF Body[b].blank THEN FALSE
  ELSE Body[b].begin /\ Body[b].end

\* The try block of fetch_calendar for one response: the calendar data it
\* returns ("" for 304) or the exception raised inside the block.
fetch_try(resp) ==
  IF resp.exc # "None" THEN [data |-> "", exc |-> resp.exc]
  ELSE IF resp.status = 401 THEN [data |-> "", exc |-> "AuthenticationError"]
  ELSE IF resp.status = 304 THEN [data |-> "", exc |-> "None"]
  ELSE IF resp.status \notin 200..299 THEN [data |-> "", exc |-> "HTTPStatusError"]
  ELSE IF ~is_valid_calendar_content(resp.body)
       THEN [data |-> "", exc |-> "ParsingError"]
  ELSE [data |-> resp.body, exc |-> "None"]

\* The except clauses of fetch_calendar, in order: what leaves the function
\* when exc was raised inside the try block.
fetch_except(exc) ==
  IF exc = "None" THEN "None"
  ELSE IF IsInstance(exc, "TimeoutException") THEN "TimeoutError"
  ELSE IF IsInstance(exc, "RequestError") THEN "CalendarFetchError"
  ELSE IF IsInstance(exc, "Exception") THEN "CalendarFetchError"
  ELSE exc

\* One execution of the body of fetch_calendar.
fetch_attempt(resp) ==
  LET r == fetch_try(resp)
  IN  [data |-> r.data, exc |-> fetch_except(r.exc)]

\* retry_if_exception_type((httpx.RequestError, httpx.TimeoutException))
retry_if(exc) ==
  IsInstance(exc, "RequestError") \/ IsInstance(exc, "TimeoutException")

\* The retry decorator after attempt number n ended as r: "retry", or "stop"
\* with what fetch_calendar gives its caller (RetryError when the attempts
\* are used up).
retry_decision(n, r) ==
  IF r.exc # "None" /\ retry_if(r.exc)
  THEN IF n >= StopAfterAttempt
       THEN [do |-> "stop", data |-> "", exc |-> "RetryError"]
       ELSE [do |-> "retry", data |-> "", exc |-> "None"]
  ELSE [do |-> "stop", data |-> r.data, exc |-> r.exc]

\* parse_calendar_events on accepted calendar data.
parse_calendar_events(data) ==
  IF Body[data].parses
  THEN [events |-> Body[data].events, exc |-> "None"]
  ELSE [events |-> << >>, exc |-> "ParsingError"]

\* fetch_single_calendar without its try/except: every exception leaves the task.
fetch_single_calendar_NoCatch(r) ==
  IF r.exc # "None"
  THEN [raised |-> r.exc, events |-> << >>, error |-> "None"]
  ELSE IF r.data = "" THEN [raised |-> "None", events |-> << >>, error |-> "None"]
  ELSE LET p == parse_calendar_events(r.data)
       IN  IF p.exc # "None"
           THEN [raised |-> p.exc, events |-> << >>, error |-> "None"]
           ELSE [raised |-> "None", events |-> p.events, error |-> "None"]

\* fetch_single_calendar once fetch_calendar gave r: the (events, error) the
\* task returns, or the exception that leaves the task (raised).
fetch_single_calendar(r) ==
  IF r.exc # "None"
  THEN IF IsInstance(r.exc, "Exception")
       THEN [raised |-> "None", events |-> << >>, error |-> r.exc]
       ELSE [raised |-> r.exc, events |-> << >>, error |-> "None"]
  ELSE IF r.data = "" THEN [raised |-> "None", events |-> << >>, error |-> "None"]
  ELSE LET p == parse_calendar_events(r.data)
       IN  IF p.exc # "None"
           THEN [raised |-> "None", events |-> << >>, error |-> p.exc]
           ELSE [raised |-> "None", events |-> p.events, error |-> "None"]

\* The result dictionary fetch_multiple_calendars builds from the gathered
\* task results (gather(return_exceptions=True) hands over what a task
\* raised): a result that is an Exception is logged and skipped; one that is
\* not (CancelledError) is unpacked as a pair, which raises TypeError.
build_result_dict(names, t) ==
  IF \E x \in names : t[x].raised # "None" /\ ~IsInstance(t[x].raised, "Exception")
  THEN [raised |-> "TypeError", value |-> << >>]
  ELSE [raised |-> "None",
        value |-> [ s \in { x \in names : t[x].raised = "None" } |->
                      << t[s].events, t[s].error >> ]]

\* -------------------------------------------------------------------- state
VARIABLES
  cb,        \* the CircuitBreaker object
  now,       \* the wall clock, in seconds
  pc,        \* per caller: "idle", or "running" (suspended in await func(...))
  entry,     \* per caller: the state of the breaker when its last call began
  outcome,   \* per caller: what its last call did ("None": returned a result)
  main_pc,        \* fetch_multiple_calendars: "idle", "gathering", "returned", "raised"
  cycle,          \* how many times fetch_multiple_calendars has been called
  sources,        \* the names of calendar_sources of the current call
  concurrency_limit, \* the concurrency_limit of the current call
  semaphore,      \* the value of asyncio.Semaphore(concurrency_limit)
  waiters,        \* its _waiters: the futures of the tasks suspended in acquire(), in order
  task,           \* per source name: its fetch_single_calendar task
  result_dict,    \* what the current call returned
  failed_fetches, \* per source: fetches in a row that ended in an error, before this call
  earlier_events  \* per source: the events of its last fetch with content, before this call

bvars == << cb, now, pc, entry, outcome >>
fvars == << main_pc, cycle, sources, concurrency_limit, semaphore, waiters, task,
            result_dict, failed_fetches, earlier_events >>
VARIABLES
  held,       \* per holder: the EventModel object it refers to, or None
  last_error  \* what the last operation on an EventModel raised

evars == << held, last_error >>

VARIABLES
  dedup,        \* the EventDeduplicator object, or None
  dedup_error,  \* what the last EventDeduplicator(...) raised
  found         \* the last find_duplicates call: its arguments and its result

dvars == << dedup, dedup_error, found >>

VARIABLES
  request,  \* the arguments of the last process_events call, or None
  process_results  \* what it returned, or what it raised

pvars == << request, process_results >>

VARIABLES
  generator,         \* the ICalGenerator object
  encoded,           \* the arguments of the last generate_calendar call, or None
  calendar_text,     \* the text it returned, "" before any call
  validation         \* what validate_calendar returned for that text, or None

ivars == << generator, encoded, calendar_text, validation >>

VARIABLES
  inclusion  \* the last _should_include_event call, its arguments and its result, or None

kvars == << inclusion >>

VARIABLES
  breakers,  \* CircuitBreakerRegistry._breakers, a breaker per registered name
  clock,  \* the wall clock of the registry, in seconds
  cleaned,  \* the last cleanup_inactive call, its argument and what it removed, or None
  suspended  \* the bag of calls through the registry that are suspended in `await func(...)`

rvars == << breakers, clock, cleaned, suspended >>

VARIABLES
  overlaps  \* the last detect_overlapping_events call, its arguments and the pairs it returned, or None

ovars == << overlaps >>

vars == << bvars, fvars, evars, dvars, pvars, ivars, kvars, rvars, ovars >>

\* what the actions of one subsystem leave alone
OutsideBreaker == << fvars, evars, dvars, pvars, ivars, kvars, rvars, ovars >>
OutsideFetch == << bvars, evars, dvars, pvars, ivars, kvars, rvars, ovars >>
OutsideEvent == << bvars, fvars, dvars, pvars, ivars, kvars, rvars, ovars >>
OutsideDedup == << bvars, fvars, evars, pvars, ivars, kvars, rvars, ovars >>
OutsideProcessor == << bvars, fvars, evars, dedup, dedup_error, found, ivars, kvars, rvars, ovars >>
OutsideICal == << bvars, fvars, evars, dvars, pvars, kvars, rvars, ovars >>
OutsideFilter == << bvars, fvars, evars, dvars, pvars, ivars, rvars, ovars >>
OutsideRegistry == << bvars, fvars, evars, dvars, pvars, ivars, kvars, ovars >>
OutsideOverlaps == << bvars, fvars, evars, dvars, pvars, ivars, kvars, rvars >>

Callers == 1..MaxCallers
Thresholds == 1..MaxThreshold
RecoveryTimeouts == 0..MaxRecovery
ExpectedChoices == {"Exception", "CalendarFetchError"}
\* what a wrapped operation can do: return, or raise one of these
Raisable == {"None", "ValueError", "TimeoutError", "CancelledError"}
SourceNames == {"A", "B"}

\* A task of fetch_multiple_calendars at position p.
Task(p) ==
  [ pc |-> p, attempts |-> 0, response |-> NoResponse,
    raised |-> "None", events |-> << >>, error |-> "None" ]

NoCallers ==
  /\ now = 0
  /\ pc = [c \in Callers |-> "idle"]
  /\ entry = [c \in Callers |-> "never"]
  /\ outcome = [c \in Callers |-> "never"]

NoFetch ==
  /\ main_pc = "idle"
  /\ cycle = 0
  /\ sources = {}
  /\ concurrency_limit = 0
  /\ semaphore = 0
  /\ waiters = << >>
  /\ task = [s \in SourceNames |-> Task("none")]
  /\ result_dict = << >>
  /\ failed_fetches = [s \in SourceNames |-> 0]
  /\ earlier_events = [s \in SourceNames |-> << >>]

Holders == {"event1", "event2", "merged_event"}

NoEvent ==
  /\ held = [h \in Holders |-> None]
  /\ last_error = "None"

NoDedup ==
  /\ dedup = None
  /\ dedup_error = "None"
  /\ found = None

NoRequest ==
  /\ request = None
  /\ process_results = None

NoICal ==
  /\ generator = None
  /\ encoded = None
  /\ calendar_text = ""
  /\ validation = None

NoInclusion ==
  /\ inclusion = None

NoRegistry ==
  /\ breakers = << >>
  /\ clock = 0
  /\ cleaned = None
  /\ suspended = EmptyBag

NoOverlaps ==
  /\ overlaps = None

Init ==
  /\ cb \in { CircuitBreaker(n, r, x) :
                n \in Thresholds, r \in RecoveryTimeouts, x \in ExpectedChoices }
  /\ NoCallers
  /\ NoFetch
  /\ NoEvent
  /\ NoDedup
  /\ NoRequest
  /\ NoICal
  /\ NoInclusion
  /\ NoRegistry
  /\ NoOverlaps

\* A coroutine calls breaker.call(func): runs to the await, or is rejected.
CallEnter(c) ==
  /\ pc[c] = "idle"
  /\ cb.total_requests < MaxRequests
  /\ LET r == call_enter(cb, now)
     IN  /\ cb' = r.cb
         /\ pc' = [pc EXCEPT ![c] = IF r.invoke THEN "running" ELSE "idle"]
         /\ outcome' = [outcome EXCEPT
                          ![c] = IF r.invoke THEN "pending" ELSE "CircuitBreakerError"]
  /\ entry' = [entry EXCEPT ![c] = cb.state]
  /\ UNCHANGED now
  /\ UNCHANGED OutsideBreaker

\* The wrapped operation of caller c returns or raises; call() finishes.
CallReturn(c) ==
  /\ pc[c] = "running"
  /\ \E raised \in Raisable :
       /\ cb' = call_exit(cb, now, raised)
       /\ outcome' = [outcome EXCEPT ![c] = raised]
  /\ pc' = [pc EXCEPT ![c] = "idle"]
  /\ UNCHANGED << now, entry >>
  /\ UNCHANGED OutsideBreaker

\* breaker.reset(), between two steps of the callers
Reset ==
  /\ cb.state_changes < MaxChanges
  /\ cb' = reset(cb)
  /\ UNCHANGED << now, pc, entry, outcome >>
  /\ UNCHANGED OutsideBreaker

\* One second passes.
Tick ==
  /\ now < MaxTime
  /\ now' = now + 1
  /\ UNCHANGED << cb, pc, entry, outcome >>
  /\ UNCHANGED OutsideBreaker

Next ==
  \/ \E c \in Callers : CallEnter(c)
  \/ \E c \in Callers : CallReturn(c)
  \/ Reset
  \/ Tick

Spec == Init /\ [][Next]_vars

\* ------------------------------------------------- fetch coordinator, actions
\* The registry's default breaker; fetcher.py never looks one up.
InitFetch ==
  /\ cb = CircuitBreaker(FailureThreshold, RecoveryTimeout, "Exception")
  /\ NoCallers
  /\ NoFetch
  /\ NoEvent
  /\ NoDedup
  /\ NoRequest
  /\ NoICal
  /\ NoInclusion
  /\ NoRegistry
  /\ NoOverlaps

\* The outcome of the last call, folded into what is known of each source from
\* earlier calls.
FailedAfter(s) ==
  IF s \notin DOMAIN result_dict THEN failed_fetches[s]
  ELSE IF result_dict[s][2] # "None"
       THEN IF failed_fetches[s] < FailureThreshold
            THEN failed_fetches[s] + 1 ELSE failed_fetches[s]
  ELSE 0

EventsAfter(s) ==
  IF s \in DOMAIN result_dict /\ result_dict[s][2] = "None"
     /\ task[s].response.status = 200
  THEN result_dict[s][1]
  ELSE earlier_events[s]

\* fetch_multiple_calendars(calendar_sources, concurrency_limit) is called:
\* the semaphore and one task per source are created.
StartCycle ==
  /\ main_pc \in {"idle", "returned", "raised"}
  /\ cycle < MaxCycles
  /\ \E names \in SUBSET SourceNames, limit \in 1..MaxLimit :
       /\ sources' = names
       /\ concurrency_limit' = limit
       /\ semaphore' = limit
       /\ waiters' = << >>
       /\ task' = [s \in SourceNames |->
                     IF s \in names THEN Task("waiting") ELSE Task("none")]
  /\ main_pc' = "gathering"
  /\ cycle' = cycle + 1
  /\ result_dict' = << >>
  /\ failed_fetches' = [s \in SourceNames |-> FailedAfter(s)]
  /\ earlier_events' = [s \in SourceNames |-> EventsAfter(s)]
  /\ UNCHANGED OutsideFetch

\* asyncio.Semaphore.locked(): acquire() suspends the task while it holds.
\* No task is cancelled, so every future in _waiters counts.
locked_Never(value, futures) == FALSE

locked(value, futures) == value = 0 \/ futures # << >>

\* asyncio.Semaphore._wake_up_next: the slot goes to the first waiter whose
\* future is not done
wake_up_next(value, futures) ==
  LET pending == { i \in DOMAIN futures : ~futures[i].done }
  IN  IF pending = { } THEN [ value |-> value, waiters |-> futures ]
      ELSE LET first == CHOOSE i \in pending : \A j \in pending : i <= j
           IN  [ value |-> value - 1,
                 waiters |-> [ futures EXCEPT ![first].done = TRUE ] ]

\* asyncio.Semaphore.release
release(value, futures) == wake_up_next(value + 1, futures)

\* the place of the future of source s in _waiters, 0 when it has none
future_of(futures, s) ==
  IF \E i \in DOMAIN futures : futures[i].source = s
    THEN CHOOSE i \in DOMAIN futures : futures[i].source = s
    ELSE 0

\* The task of source s runs to its next await.  On its first run it enters
\* `async with semaphore`: acquire() takes a slot and fetch_calendar sends
\* the first request, or, the semaphore being locked, acquire() appends a
\* future to _waiters and suspends.  A suspended task runs again once its
\* future is done: acquire() removes the future, wakes the next waiter if
\* the value is positive, and fetch_calendar sends the first request.
TaskStart(s) ==
  /\ main_pc = "gathering"
  /\ task[s].pc = "waiting"
  /\ LET place == future_of(waiters, s)
         rest == [ i \in 1..(Len(waiters) - 1) |->
                     IF i < place THEN waiters[i] ELSE waiters[i + 1] ]
         woken == IF semaphore > 0 THEN wake_up_next(semaphore, rest)
                  ELSE [ value |-> semaphore, waiters |-> rest ]
     IN  IF place = 0
           THEN IF ~locked(semaphore, waiters)
                  THEN /\ semaphore' = semaphore - 1
                       /\ waiters' = waiters
                       /\ task' = [task EXCEPT ![s].pc = "requesting",
                                                ![s].attempts = 1]
                  ELSE /\ waiters' = Append(waiters, [ source |-> s, done |-> FALSE ])
                       /\ UNCHANGED << semaphore, task >>
         ELSE /\ waiters[place].done
              /\ semaphore' = woken.value
              /\ waiters' = woken.waiters
              /\ task' = [task EXCEPT ![s].pc = "requesting", ![s].attempts = 1]
  /\ UNCHANGED << main_pc, cycle, sources, concurrency_limit, result_dict,
                  failed_fetches, earlier_events >>
  /\ UNCHANGED OutsideFetch

\* The transport answers the request of source s: fetch_calendar either
\* backs off and sends the request again, or ends, and then
\* fetch_single_calendar parses, leaves the semaphore (release()) and
\* finishes.
Respond(s) ==
  /\ main_pc = "gathering"
  /\ task[s].pc = "requesting"
  /\ \E resp \in Responses :
       LET d == retry_decision(task[s].attempts, fetch_attempt(resp))
           f == fetch_single_calendar([data |-> d.data, exc |-> d.exc])
           released == release(semaphore, waiters)
       IN  IF d.do = "retry"
           THEN /\ task' = [task EXCEPT ![s].attempts = @ + 1,
                                        ![s].response = resp]
                /\ UNCHANGED << semaphore, waiters >>
           ELSE /\ task' = [task EXCEPT ![s].pc = "done",
                                        ![s].response = resp,
                                        ![s].raised = f.raised,
                                        ![s].events = f.events,
                                        ![s].error = f.error]
                /\ semaphore' = released.value
                /\ waiters' = released.waiters
  /\ UNCHANGED << main_pc, cycle, sources, concurrency_limit, result_dict,
                  failed_fetches, earlier_events >>
  /\ UNCHANGED OutsideFetch

\* asyncio.gather has every task's result: the dictionary is built and returned.
GatherDone ==
  /\ main_pc = "gathering"
  /\ \A s \in sources : task[s].pc = "done"
  /\ LET built == build_result_dict(sources, task)
     IN  /\ result_dict' = built.value
         /\ main_pc' = IF built.raised = "None" THEN "returned" ELSE "raised"
  /\ UNCHANGED << cycle, sources, concurrency_limit, semaphore, waiters, task,
                  failed_fetches, earlier_events >>
  /\ UNCHANGED OutsideFetch

NextFetch ==
  \/ StartCycle
  \/ \E s \in SourceNames : TaskStart(s)
  \/ \E s \in SourceNames : Respond(s)
  \/ GatherDone

SpecFetch == InitFetch /\ [][NextFetch]_vars

\* -------------------------------------------------------------- EventModel
\* Instants stand for timezone-aware datetimes, in their order.
Instants == 0..MaxInstant

ValidationError == [raised |-> TRUE]
Valid(v) == [raised |-> FALSE, value |-> v]

\* @validator("end_time"): values holds the fields validated before this one
\* (at construction) or the other fields of the object (at assignment).
validate_end_after_start(v, values) ==
  IF "start_time" \in DOMAIN values /\ v <= values.start_time
  THEN ValidationError
  ELSE Valid(v)

\* @validator("start_time", "end_time", ...): the value is made timezone-aware;
\* nothing is compared.
validate_timezone_aware(v) == Valid(v)

\* The validators of one field, as pydantic runs them for that field.
validate_field(name, v, values) ==
  IF name = "end_time"
  THEN LET r == validate_end_after_start(v, values)
       IN  IF r.raised THEN r ELSE validate_timezone_aware(r.value)
  ELSE validate_timezone_aware(v)

\* EventModel(start_time=..., end_time=...): the fields are validated in the
\* order of their declaration, start_time before end_time.
EventModel(start, end) ==
  LET s == validate_field("start_time", start, << >>)
      e == validate_field("end_time", end, [start_time |-> s.value])
  IN  IF e.raised THEN ValidationError
      ELSE Valid([start_time |-> s.value, end_time |-> e.value])

\* event.<name> = v under Config.validate_assignment: only the validators of
\* the assigned field run.
setattr(event, name, v) ==
  LET others == IF name = "start_time" THEN [end_time |-> event.end_time]
                ELSE [start_time |-> event.start_time]
      r == validate_field(name, v, others)
  IN  IF r.raised THEN ValidationError
      ELSE Valid(IF name = "start_time"
                 THEN [event EXCEPT !.start_time = r.value]
                 ELSE [event EXCEPT !.end_time = r.value])

\* resolve_overlaps, strategy "merge_overlapping": one event spanning both.
merge_overlapping(event1, event2) ==
  EventModel(IF event1.start_time <= event2.start_time
             THEN event1.start_time ELSE event2.start_time,
             IF event1.end_time >= event2.end_time
             THEN event1.end_time ELSE event2.end_time)

Keep(h, r) ==
  /\ held' = IF r.raised THEN held ELSE [held EXCEPT ![h] = r.value]
  /\ last_error' = IF r.raised THEN "ValidationError" ELSE "None"

Construct(h) ==
  /\ h # "merged_event"
  /\ \E start \in Instants, end \in Instants : Keep(h, EventModel(start, end))
  /\ UNCHANGED OutsideEvent

Assign(h) ==
  /\ held[h] # None
  /\ \E name \in {"start_time", "end_time"}, v \in Instants :
       Keep(h, setattr(held[h], name, v))
  /\ UNCHANGED OutsideEvent

ResolveOverlaps ==
  /\ held["event1"] # None
  /\ held["event2"] # None
  /\ Keep("merged_event", merge_overlapping(held["event1"], held["event2"]))
  /\ UNCHANGED OutsideEvent

InitEvent ==
  /\ cb = CircuitBreaker(FailureThreshold, RecoveryTimeout, "Exception")
  /\ NoCallers
  /\ NoFetch
  /\ NoEvent
  /\ NoDedup
  /\ NoRequest
  /\ NoICal
  /\ NoInclusion
  /\ NoRegistry
  /\ NoOverlaps

NextEvent ==
  \/ \E h \in Holders : Construct(h)
  \/ \E h \in Holders : Assign(h)
  \/ ResolveOverlaps

SpecEvent == InitEvent /\ [][NextEvent]_vars

\* -------------------------------------------------------------------- strings
\* sub in s
Occurs(sub, s) ==
  \E i \in 1..(Len(s) - Len(sub) + 1) : SubSeq(s, i, i + Len(sub) - 1) = sub

\* "".join(strings)
RECURSIVE join(_)
join(strings) ==
  LET n == Len(strings)
  IN  IF n = 0 THEN ""
      ELSE IF n = 1 THEN strings[1]
      ELSE join(SubSeq(strings, 1, n \div 2))
             \o join(SubSeq(strings, (n \div 2) + 1, n))

\* str.lower(), on the letters of the inputs
lower(s) ==
  LET small == [ A |-> "a", B |-> "b", C |-> "c", D |-> "d", E |-> "e",
                 F |-> "f", G |-> "g", H |-> "h", I |-> "i", J |-> "j",
                 K |-> "k", L |-> "l", M |-> "m", N |-> "n", O |-> "o",
                 P |-> "p", Q |-> "q", R |-> "r", S |-> "s", T |-> "t",
                 U |-> "u", V |-> "v", W |-> "w", X |-> "x", Y |-> "y",
                 Z |-> "z" ]
  IN  join([ i \in 1..Len(s) |->
             LET c == SubSeq(s, i, i)
             IN  IF c \in DOMAIN small THEN small[c] ELSE c ])

\* str.upper(), on the letters of the inputs
upper(s) ==
  LET capital == [ a |-> "A", b |-> "B", c |-> "C", d |-> "D", e |-> "E",
                   f |-> "F", g |-> "G", h |-> "H", i |-> "I", j |-> "J",
                   k |-> "K", l |-> "L", m |-> "M", n |-> "N", o |-> "O",
                   p |-> "P", q |-> "Q", r |-> "R", s |-> "S", t |-> "T",
                   u |-> "U", v |-> "V", w |-> "W", x |-> "X", y |-> "Y",
                   z |-> "Z" ]
  IN  join([ i \in 1..Len(s) |->
             LET c == SubSeq(s, i, i)
             IN  IF c \in DOMAIN capital THEN capital[c] ELSE c ])

\* ------------------------------------------------------------ deduplicator
\* Weights are counted in units of 1/WeightUnit, thresholds in percent and
\* times in minutes; a confidence is a whole number of ConfidenceOne(d)-ths.
WeightUnit == 200
\* title_weight 0.4, time_weight 0.3, location_weight 0.2, description_weight 0.1
DefaultWeights == [title |-> 80, time |-> 60, location |-> 40, description |-> 20]
DuplicateThreshold == 80
TimeToleranceMinutes == 30
MaxDurationDiffMinutes == 120
DayMinutes == 1440

Abs(n) == IF n < 0 THEN -n ELSE n
Max(a, b) == IF a >= b THEN a ELSE b
Min(a, b) == IF a <= b THEN a ELSE b

\* abs(total_weight - 1.0) > 0.01 in floats.  total_error is the sign of the
\* rounding error of the float total against the exact sum of the weights.
\* It decides at the edge of the band only: 1.01 - 1.0 and 1.0 - 0.99 are
\* 0.010000000000000009 in floats, above 0.01, unless the total was rounded
\* toward 1.0.
off_by_more_than_a_hundredth(total_weight, total_error) ==
  \/ Abs(total_weight - WeightUnit) * 100 > WeightUnit
  \/ /\ Abs(total_weight - WeightUnit) * 100 = WeightUnit
     /\ IF total_weight > WeightUnit THEN total_error >= 0 ELSE total_error <= 0

\* EventDeduplicator.__init__: when the weights are off 1.0 by more than 0.01
\* each is divided by their total, that is, counted in units of 1/total.
EventDeduplicator(w, threshold, tolerance, total_error) ==
  LET total_weight == w.title + w.time + w.location + w.description
  IN  IF off_by_more_than_a_hundredth(total_weight, total_error)
      THEN IF total_weight = 0
           THEN [ raised |-> "ZeroDivisionError" ]
           ELSE [ raised |-> "None",
                  value |-> [ weights |-> w, weight_unit |-> total_weight,
                              duplicate_threshold |-> threshold,
                              time_tolerance |-> tolerance ] ]
      ELSE [ raised |-> "None",
             value |-> [ weights |-> w, weight_unit |-> WeightUnit,
                         duplicate_threshold |-> threshold,
                         time_tolerance |-> tolerance ] ]

\* str(n) for n >= 0
RECURSIVE str(_)
str(n) ==
  LET digit == << "0", "1", "2", "3", "4", "5", "6", "7", "8", "9" >>
  IN  IF n < 10 THEN digit[n + 1] ELSE str(n \div 10) \o digit[(n % 10) + 1]

\* A description as the string the code holds: paragraphs joined by "\n\n".
RECURSIVE Text(_)
Text(description) ==
  IF description = << >> THEN ""
  ELSE IF Len(description) = 1 THEN description[1]
  ELSE description[1] \o "\n\n" \o Text(Tail(description))

\* str(datetime): the local time and the UTC offset, in minutes
str_datetime(instant, offset) ==
  str(instant + offset) \o (IF offset >= 0 THEN "+" ELSE "-") \o str(Abs(offset))

\* hashlib.md5(...).hexdigest(), taken to be free of collisions: the digest
\* of a text is named by the text
md5(text) == << "md5", text >>

\* EventModel.update_hash
update_hash(self) ==
  LET hash_content ==
        self.title
          \o str_datetime(self.start_time, self.utcoffset)
          \o str_datetime(self.end_time, self.utcoffset)
          \o self.location \o Text(self.description)
  IN  [ self EXCEPT !.content_hash = md5(hash_content) ]

\* The events the model draws its inputs from, content_hash not yet set
\* (Events sets it, as _parse_event_component does).  event_type is what
\* _detect_event_type finds in the title (Events computes it).  A description is the
\* sequence of its paragraphs (None: no paragraph); "" stands for no
\* location, no color.  start_time and end_time are instants, in minutes;
\* utcoffset is the UTC offset of the tzinfo they are expressed in, in
\* minutes (e7: -06:00).
Catalogue ==
  LET E(id, source, title, event_type, start, location, description, tags) ==
          [ id |-> id, source_name |-> source, title |-> title,
            start_time |-> start, end_time |-> start + 60, utcoffset |-> 0,
            location |-> location, description |-> description, tags |-> tags,
            event_type |-> event_type, color |-> "", last_modified |-> 0,
            duplicate_of |-> "None", merged_from |-> "None",
            content_hash |-> None ]
  IN  [ e1 |-> E("e1", "A", "Soccer Practice", "practice", 600, "Field", <<"weekly">>, {"u12"}),
        e2 |-> E("e2", "B", "Soccer Practice", "practice", 605, "Field", <<"weekly">>, {"u12"}),
        e3 |-> E("e3", "C", "SOCCER PRACTICE", "practice", 600, "Gym", <<"weekly">>, {"soccer"}),
        e4 |-> E("e4", "C", "Soccer Practice", "practice", 615, "Field", <<"U12">>, {}),
        e5 |-> E("e5", "A", "Gym", "None", 600, "Gym", << >>, {}),
        e6 |-> E("e6", "B", "Soccer Practice", "practice", 640, "Field", <<"weekly">>, {}),
        e7 |-> [ E("e7", "B", "Soccer Practice", "practice", 600, "Field", <<"weekly">>, {"u12"})
                   EXCEPT !.utcoffset = -360 ],
        e8 |-> E("e8", "C", "Soccer Practice", "practice", 610, "Field", <<"weekly">>, {"u12"}) ]

EventIds == DOMAIN Catalogue

\* _normalize_text on the texts of the catalogue: lower case, whitespace and
\* punctuation folded.
normalize_text ==
  ("Soccer Practice" :> "soccer practice") @@
  ("SOCCER PRACTICE" :> "soccer practice") @@
  ("Gym" :> "gym") @@ ("Field" :> "field") @@
  ("weekly" :> "weekly") @@ ("U12" :> "u12")

\* SequenceMatcher(None, a, b).ratio() and _apply_sports_specific_matching:
\* two texts of the catalogue that differ after normalisation share no
\* character, and none holds a game pattern (vs, at, @).
fuzzy_similarity(norm_text1, norm_text2) == 0

\* _calculate_text_similarity: 1 for 1.0, 0 for 0.0
calculate_text_similarity(text1, text2) ==
  IF text1 = "" /\ text2 = "" THEN 1
  ELSE IF text1 = "" \/ text2 = "" THEN 0
  ELSE IF normalize_text[text1] = normalize_text[text2] THEN 1
  ELSE Min(1, fuzzy_similarity(normalize_text[text1], normalize_text[text2]))

\* The unit _calculate_time_similarity counts in: 1/(5 * tolerance * 120).
TimeOne(d) == 5 * d.time_tolerance * MaxDurationDiffMinutes

\* _calculate_time_similarity: (start_similarity * 0.8) + (duration_similarity * 0.2)
calculate_time_similarity(d, start1, end1, start2, end2) ==
  LET start_diff == Abs(start1 - start2)
      duration_diff == Abs((end1 - start1) - (end2 - start2))
      start_similarity == Max(0, d.time_tolerance - start_diff)
      duration_similarity == Max(0, MaxDurationDiffMinutes - duration_diff)
  IN  Min(TimeOne(d), 4 * start_similarity * MaxDurationDiffMinutes
                      + duration_similarity * d.time_tolerance)

calculate_similarity_factors(d, event1, event2) ==
  [ title |-> calculate_text_similarity(event1.title, event2.title),
    time |-> calculate_time_similarity(d, event1.start_time, event1.end_time,
                                       event2.start_time, event2.end_time),
    location |-> calculate_text_similarity(event1.location, event2.location),
    description |-> calculate_text_similarity(Text(event1.description),
                                              Text(event2.description)),
    source_difference |-> IF event1.source_name = event2.source_name THEN 0 ELSE 1,
    event_type_match |-> IF event1.event_type = event2.event_type THEN 1 ELSE 0 ]

\* 1.0 as a confidence
ConfidenceOne(d) == d.weight_unit * TimeOne(d) * 100

\* _calculate_overall_confidence: the weighted score, times 0.7 for the same
\* source, times 1.1 for the same event type, at most 1.0
calculate_overall_confidence(d, factors) ==
  LET weighted == (factors.title * d.weights.title
                   + factors.location * d.weights.location
                   + factors.description * d.weights.description) * TimeOne(d)
                  + factors.time * d.weights.time
  IN  Min(ConfidenceOne(d),
          weighted * (IF factors.source_difference = 0 THEN 7 ELSE 10)
                   * (IF factors.event_type_match = 1 THEN 11 ELSE 10))

\* _create_time_buckets: the key is the local midnight with its UTC offset
bucket_key(event) ==
  << (event.start_time + event.utcoffset) \div DayMinutes, event.utcoffset >>

create_time_buckets(events) ==
  [ k \in { bucket_key(events[i]) : i \in DOMAIN events } |->
      SelectSeq(events, LAMBDA e : bucket_key(e) = k) ]

\* the filter of _find_potential_duplicates left out
within_tolerance_Any(d, candidate, event) == TRUE

\* time_diff <= self.time_tolerance
within_tolerance(d, candidate, event) ==
  Abs(candidate.start_time - event.start_time) <= d.time_tolerance

\* the sort key of _find_potential_duplicates: existing events first, then by start
sort_key_before(a, b, existing_ids) ==
  LET ka == IF a.id \in existing_ids THEN 0 ELSE 1
      kb == IF b.id \in existing_ids THEN 0 ELSE 1
  IN  ka < kb \/ (ka = kb /\ a.start_time < b.start_time)

\* list.sort: stable
RECURSIVE sorted(_, _)
sorted(list, existing_ids) ==
  IF list = << >> THEN << >>
  ELSE LET x == list[Len(list)]
           rest == sorted(SubSeq(list, 1, Len(list) - 1), existing_ids)
           keep == SelectSeq(rest, LAMBDA y : ~sort_key_before(x, y, existing_ids))
           after == SelectSeq(rest, LAMBDA y : sort_key_before(x, y, existing_ids))
       IN  keep \o << x >> \o after

find_potential_duplicates(d, event, time_buckets, existing_events) ==
  LET date == bucket_key(event)[1]
      bucket(day_offset) ==
        LET key == << date + day_offset, event.utcoffset >>
        IN  IF key \in DOMAIN time_buckets THEN time_buckets[key] ELSE << >>
      potential_duplicates ==
        SelectSeq(bucket(-1) \o bucket(0) \o bucket(1),
                  LAMBDA c : within_tolerance(d, c, event))
  IN  sorted(potential_duplicates,
             { existing_events[i].id : i \in DOMAIN existing_events })

NoMatch == [ best_match |-> "None", best_confidence |-> 0 ]

\* the loop of find_duplicates with `>=` for `>`: the last of the best wins
RECURSIVE best_of_LastWins(_, _, _, _)
best_of_LastWins(d, event, candidates, best) ==
  IF candidates = << >> THEN best
  ELSE LET candidate == Head(candidates)
           confidence == calculate_overall_confidence(
                           d, calculate_similarity_factors(d, event, candidate))
       IN  best_of_LastWins(d, event, Tail(candidates),
                   IF candidate.id # event.id /\ confidence >= best.best_confidence
                   THEN [ best_match |-> candidate.id, best_confidence |-> confidence ]
                   ELSE best)

\* the loop of find_duplicates over the candidates of one event
RECURSIVE best_of(_, _, _, _)
best_of(d, event, candidates, best) ==
  IF candidates = << >> THEN best
  ELSE LET candidate == Head(candidates)
           confidence == calculate_overall_confidence(
                           d, calculate_similarity_factors(d, event, candidate))
       IN  best_of(d, event, Tail(candidates),
                   IF candidate.id # event.id /\ confidence > best.best_confidence
                   THEN [ best_match |-> candidate.id, best_confidence |-> confidence ]
                   ELSE best)

DuplicationResult(is_duplicate, confidence, canonical_event) ==
  [ is_duplicate |-> is_duplicate, confidence |-> confidence,
    canonical_event |-> canonical_event ]

\* find_duplicates(events, existing_events): existing_events None is << >>;
\* a canonical event is referred to by its id.
find_duplicates(d, events, existing_events) ==
  LET all_events == existing_events \o events
      time_buckets == create_time_buckets(all_events)
      result(event) ==
        LET best == best_of(d, event,
                            find_potential_duplicates(d, event, time_buckets,
                                                      existing_events),
                            NoMatch)
            is_duplicate ==
              best.best_confidence
                >= d.duplicate_threshold * d.weight_unit * TimeOne(d)
        IN  DuplicationResult(is_duplicate, best.best_confidence,
                              IF is_duplicate THEN best.best_match ELSE "None")
  IN  [ id \in { events[i].id : i \in DOMAIN events } |->
          result(CHOOSE e \in { events[i] : i \in DOMAIN events } : e.id = id) ]

\* ---------------------------------------------------------- event processor
Sources == { Catalogue[id].source_name : id \in EventIds }
Titles == { Catalogue[id].title : id \in EventIds }

\* source_label_format "[{source}]" and the separator " "
source_label(source_name) == "[" \o source_name \o "] "

\* TitleFormatter._has_source_label, on the titles that can occur: the
\* catalogue's titles hold no source name; a formatted title holds its label.
has_source_label(title, source_name) ==
  \E t \in Titles : title = source_label(source_name) \o t

\* TitleFormatter._clean_title: the catalogue's titles have no repeated
\* whitespace or punctuation.
clean_title == [ t \in Titles |-> t ]

\* TitleFormatter.format_title with the defaults (source labels, no type
\* label, max_title_length 100, which no title here reaches)
format_title(event) ==
  IF event.title \in Titles
  THEN IF event.source_name # "" /\ ~has_source_label(event.title, event.source_name)
       THEN source_label(event.source_name) \o clean_title[event.title]
       ELSE clean_title[event.title]
  ELSE event.title

\* The sports whose keywords occur in a text (substring search in lower
\* case): "practice" holds "ice", "field" is a keyword of track.
keyword_sports ==
  ("Soccer Practice" :> {"soccer", "hockey"}) @@
  ("SOCCER PRACTICE" :> {"soccer", "hockey"}) @@
  ("Gym" :> {}) @@ ("Field" :> {"track"}) @@ ("" :> {}) @@
  ("weekly" :> {}) @@ ("U12" :> {})

\* A source label adds no keyword.
sports_in(text) ==
  IF text \in DOMAIN keyword_sports THEN keyword_sports[text]
  ELSE UNION { keyword_sports[t] :
                 t \in { u \in Titles : \E s \in Sources : text = source_label(s) \o u } }

RECURSIVE sports_in_all(_)
sports_in_all(paragraphs) ==
  IF paragraphs = << >> THEN {}
  ELSE sports_in(Head(paragraphs)) \cup sports_in_all(Tail(paragraphs))

\* the order of sport_keywords
sport_order ==
  << "soccer", "basketball", "baseball", "hockey", "tennis", "swimming",
     "track", "volleyball", "golf", "wrestling" >>

\* EventProcessor._detect_sport_from_event: the first sport with a keyword in
\* title, description or location, or None
detect_sport_from_event(event) ==
  LET present == sports_in(event.title) \cup sports_in_all(event.description)
                 \cup sports_in(event.location)
      hits == SelectSeq(sport_order, LAMBDA s : s \in present)
  IN  IF hits = << >> THEN "None" ELSE Head(hits)

\* EventProcessor._extract_team_name: no title here matches "X vs Y" or holds
\* a team name
extract_team_name(title) == "None"

\* ColorManager.SPORT_COLORS, and its keys in the order of the dictionary
SPORT_COLORS ==
  ("soccer" :> "#00AA00") @@ ("football" :> "#8B4513") @@
  ("basketball" :> "#FF8800") @@ ("baseball" :> "#FF0000") @@
  ("hockey" :> "#0066CC") @@ ("tennis" :> "#FFFF00") @@
  ("swimming" :> "#00CCFF") @@ ("track" :> "#FF6600") @@
  ("volleyball" :> "#FF69B4") @@ ("lacrosse" :> "#800080") @@
  ("wrestling" :> "#8B0000") @@ ("golf" :> "#228B22") @@
  ("cross country" :> "#DC143C") @@ ("softball" :> "#FFD700")

sport_names ==
  << "soccer", "football", "basketball", "baseball", "hockey", "tennis",
     "swimming", "track", "volleyball", "lacrosse", "wrestling", "golf",
     "cross country", "softball" >>

\* ColorManager.TEAM_COLORS, and its keys in the order of the dictionary
TEAM_COLORS ==
  [ eagles |-> "#8B4513", tigers |-> "#FF8C00", lions |-> "#DAA520",
    bears |-> "#654321", wolves |-> "#696969", sharks |-> "#4682B4",
    hawks |-> "#8B0000", falcons |-> "#2F4F4F", panthers |-> "#000000",
    bulls |-> "#DC143C", rams |-> "#4169E1", saints |-> "#FFD700",
    giants |-> "#0000FF", jets |-> "#006400", raiders |-> "#C0C0C0",
    chiefs |-> "#FF0000", broncos |-> "#FF8C00", steelers |-> "#000000",
    cowboys |-> "#4169E1", patriots |-> "#002244", dolphins |-> "#008B8B",
    cardinals |-> "#8B0000", vikings |-> "#4B0082", packers |-> "#006400",
    seahawks |-> "#005A8B", chargers |-> "#FFD700", ravens |-> "#4B0082",
    titans |-> "#4169E1" ]

team_names ==
  << "eagles", "tigers", "lions", "bears", "wolves", "sharks", "hawks",
     "falcons", "panthers", "bulls", "rams", "saints", "giants", "jets",
     "raiders", "chiefs", "broncos", "steelers", "cowboys", "patriots",
     "dolphins", "cardinals", "vikings", "packers", "seahawks", "chargers",
     "ravens", "titans" >>

\* ColorManager._hash_to_color of the source names: palette[md5 % 20]
hash_to_color == [ A |-> "#9C27B0", B |-> "#FF5722", C |-> "#FF9800" ]

Returned(v) == [ raised |-> "None", value |-> v ]
Raised(x) == [ raised |-> x ]

\* the colour of the first name of names (a dictionary's keys, in order)
\* that occurs in identifier_lower, or None
first_color(names, colors, identifier_lower) ==
  LET hits == SelectSeq(names, LAMBDA name : Occurs(name, identifier_lower))
  IN  IF hits = << >> THEN "None" ELSE colors[Head(hits)]

\* ColorManager._get_sport_color: context.get("sport", "").lower() is called
\* on whatever the context holds under "sport" (None has no lower()).
get_sport_color(identifier, context) ==
  IF context.sport = "None" THEN Raised("AttributeError")
  ELSE IF lower(context.sport) \in DOMAIN SPORT_COLORS
       THEN Returned(SPORT_COLORS[lower(context.sport)])
  ELSE Returned(first_color(sport_names, SPORT_COLORS, lower(identifier)))

\* ColorManager._get_team_color: the same with "team" and TEAM_COLORS
get_team_color(identifier, context) ==
  IF context.team = "None" THEN Raised("AttributeError")
  ELSE IF lower(context.team) \in DOMAIN TEAM_COLORS
       THEN Returned(TEAM_COLORS[lower(context.team)])
  ELSE Returned(first_color(team_names, TEAM_COLORS, lower(identifier)))

\* ColorManager.assign_color
assign_color(identifier, context) ==
  LET sport_color == get_sport_color(identifier, context)
      team_color == get_team_color(identifier, context)
  IN  IF sport_color.raised # "None" THEN sport_color
      ELSE IF sport_color.value # "None" THEN sport_color
      ELSE IF team_color.raised # "None" THEN team_color
      ELSE IF team_color.value # "None" THEN team_color
      ELSE Returned(hash_to_color[identifier])

\* `duplicate.description not in canonical.description`: no paragraph of the
\* catalogue is part of another
contains(description, part) ==
  \E i \in 1..(Len(description) - Len(part) + 1) :
    SubSeq(description, i, i + Len(part) - 1) = part

\* EventDeduplicator.merge_duplicate_events: the merged copy of the canonical
\* event, and the duplicate marked with duplicate_of.  tags are a set: the
\* order of list(set(...)) is left open.
merge_duplicate_events(canonical_event, duplicate_event) ==
  LET description ==
        IF duplicate_event.description # << >> /\ canonical_event.description = << >>
        THEN duplicate_event.description
        ELSE IF duplicate_event.description # << >>
                /\ ~contains(canonical_event.description, duplicate_event.description)
        THEN canonical_event.description \o duplicate_event.description
        ELSE canonical_event.description
      location ==
        IF duplicate_event.location # "" /\ canonical_event.location = ""
        THEN duplicate_event.location
        ELSE IF duplicate_event.location # "" /\ canonical_event.location # ""
                /\ Len(duplicate_event.location) > Len(canonical_event.location)
        THEN duplicate_event.location
        ELSE canonical_event.location
  IN  [ merged_event |->
          [ canonical_event EXCEPT
              !.description = description,
              !.location = location,
              !.tags = canonical_event.tags \cup duplicate_event.tags,
              !.last_modified = Max(canonical_event.last_modified,
                                    duplicate_event.last_modified),
              !.merged_from = duplicate_event.id ],
        duplicate_event |->
          [ duplicate_event EXCEPT !.duplicate_of = canonical_event.id ] ]

\* results["processed_events"][i] = merged_event for the first i with the id
RECURSIVE replace_first(_, _, _)
replace_first(list, id, merged_event) ==
  IF list = << >> THEN << >>
  ELSE IF Head(list).id = id THEN << merged_event >> \o Tail(list)
  ELSE << Head(list) >> \o replace_first(Tail(list), id, merged_event)

NoResults ==
  [ raised |-> "None", processed_events |-> << >>, duplicate_events |-> << >>,
    unique_events |-> 0, duplicates_found |-> 0, formatted_titles |-> 0,
    colors_assigned |-> 0 ]

\* `if detect_duplicates and existing_events:`
wants_duplicates(detect_duplicates, existing_events) ==
  detect_duplicates /\ existing_events # << >>

\* One pass of the loop of process_events over `event`, an object of objs.
process_one(d, id, objs, duplicate_results, results, flags) ==
  LET event == objs[id]
      is_duplicate ==
        IF duplicate_results # << >> THEN duplicate_results[id].is_duplicate
        ELSE FALSE
  IN  IF is_duplicate
      THEN LET canonical == duplicate_results[id].canonical_event
               m == merge_duplicate_events(objs[canonical], event)
           IN  IF canonical = "None"
               THEN [ objs |-> objs,
                      results |-> [ results EXCEPT
                        !.duplicate_events = Append(@, event),
                        !.duplicates_found = @ + 1 ] ]
               ELSE [ objs |-> [ objs EXCEPT ![id] = m.duplicate_event ],
                      results |-> [ results EXCEPT
                        !.processed_events = replace_first(@, canonical, m.merged_event),
                        !.duplicate_events = Append(@, m.duplicate_event),
                        !.duplicates_found = @ + 1 ] ]
      ELSE LET titled == IF flags.apply_formatting
                         THEN [ event EXCEPT !.title = format_title(event) ]
                         ELSE event
               color == assign_color(titled.source_name,
                                     [ sport |-> detect_sport_from_event(titled),
                                       team |-> extract_team_name(titled.title) ])
               wants_color == flags.apply_colors /\ titled.color = ""
               colored == IF wants_color /\ color.raised = "None"
                          THEN [ titled EXCEPT !.color = color.value ]
                          ELSE titled
           IN  IF wants_color /\ color.raised # "None"
               THEN [ objs |-> [ objs EXCEPT ![id] = titled ],
                      results |-> [ results EXCEPT !.raised = color.raised ] ]
               ELSE [ objs |-> [ objs EXCEPT ![id] = colored ],
                      results |-> [ results EXCEPT
                        !.processed_events = Append(@, colored),
                        !.unique_events = @ + 1,
                        !.formatted_titles =
                          IF titled.title # event.title THEN @ + 1 ELSE @,
                        !.colors_assigned = IF wants_color THEN @ + 1 ELSE @ ] ]

RECURSIVE process_loop(_, _, _, _, _, _)
process_loop(d, ids, objs, duplicate_results, results, flags) ==
  IF ids = << >> \/ results.raised # "None" THEN results
  ELSE LET step == process_one(d, Head(ids), objs, duplicate_results, results, flags)
       IN  process_loop(d, Tail(ids), step.objs, duplicate_results,
                        step.results, flags)

\* EventProcessor.process_events(new_events, existing_events, apply_formatting,
\* apply_colors, detect_duplicates); an exception leaves no results.
process_events(d, new_events, existing_events, flags) ==
  LET duplicate_results ==
        IF wants_duplicates(flags.detect_duplicates, existing_events)
        THEN find_duplicates(d, new_events, existing_events)
        ELSE << >>
      all_events == existing_events \o new_events
      objs == [ id \in { all_events[i].id : i \in DOMAIN all_events } |->
                  CHOOSE e \in { all_events[i] : i \in DOMAIN all_events } : e.id = id ]
      results == process_loop(d, [ i \in DOMAIN new_events |-> new_events[i].id ],
                              objs, duplicate_results, NoResults, flags)
  IN  IF results.raised # "None"
      THEN [ NoResults EXCEPT !.raised = results.raised ]
      ELSE results

\* ------------------------------------------- deduplicator, processor: actions
\* the weights a caller passes: the defaults; 0.105, 0.095, 0.11 and 0.09 for
\* the description; 0.3, 0.3, 0.29, 0.12; 1.0 each; 0.5 each; 0.2, 0.1, 0.1,
\* 0.1; 0.0 each
WeightChoices ==
  { DefaultWeights,
    [ DefaultWeights EXCEPT !.description = 21 ],
    [ DefaultWeights EXCEPT !.description = 19 ],
    [ DefaultWeights EXCEPT !.description = 22 ],
    [ DefaultWeights EXCEPT !.description = 18 ],
    [ title |-> 60, time |-> 60, location |-> 58, description |-> 24 ],
    [ title |-> 200, time |-> 200, location |-> 200, description |-> 200 ],
    [ title |-> 100, time |-> 100, location |-> 100, description |-> 100 ],
    [ title |-> 40, time |-> 20, location |-> 20, description |-> 20 ],
    [ title |-> 0, time |-> 0, location |-> 0, description |-> 0 ] }

\* title_weight + time_weight + location_weight + description_weight in
\* floats, for the weights above: the sign of its rounding error (0.4 + 0.3 +
\* 0.2 + 0.1 is 0.9999999999999999, 0.3 + 0.3 + 0.29 + 0.12 is
\* 1.0099999999999998)
total_error(w) ==
  IF w \in { DefaultWeights,
             [ DefaultWeights EXCEPT !.description = 19 ],
             [ DefaultWeights EXCEPT !.description = 18 ],
             [ title |-> 60, time |-> 60, location |-> 58, description |-> 24 ] }
  THEN -1 ELSE 0

\* time_tolerance_minutes: the default, and the 10 minutes of the tests
Tolerances == { 10, TimeToleranceMinutes }

\* lists of at most n different events of the catalogue, by id
Batches(n) ==
  { s \in UNION { [1..k -> EventIds] : k \in 0..n } :
      \A i, j \in DOMAIN s : i # j => s[i] # s[j] }

\* The orders in which `for x in a_set` can visit a set of strings: the
\* order is that of the hashes, which differ from one interpreter to the next.
iteration_orders(a_set) ==
  { order \in [1..Cardinality(a_set) -> a_set] :
      \A i, j \in DOMAIN order : i # j => order[i] # order[j] }

\* type_keywords of _detect_event_type, in the order of the dict
type_keywords ==
  << [ event_type |-> "game",
       keywords |-> << "game", "match", "competition", "vs", "against", "@" >> ],
     [ event_type |-> "practice",
       keywords |-> << "practice", "training", "drill", "scrimmage", "workout" >> ],
     [ event_type |-> "tournament",
       keywords |-> << "tournament", "championship", "cup", "classic",
                       "invitational" >> ],
     [ event_type |-> "meeting",
       keywords |-> << "meeting", "parent", "team meeting", "coach meeting" >> ],
     [ event_type |-> "fundraiser",
       keywords |-> << "fundraiser", "car wash", "bake sale", "raffle" >> ],
     [ event_type |-> "social",
       keywords |-> << "party", "banquet", "celebration", "picnic", "bbq" >> ],
     [ event_type |-> "travel",
       keywords |-> << "travel", "departure", "bus", "carpool", "transport" >> ] >>

\* _detect_event_type: the first type one of whose keywords occurs in the
\* lower-cased title, description and categories; None without one.
\* categories is the text str(categories) of the event's categories.
detect_event_type(title, description, categories) ==
  LET text_content ==
        lower(title)
          \o (IF description # "" THEN " " \o lower(description) ELSE "")
          \o (IF categories # "" THEN " " \o lower(categories) ELSE "")
      matching == { i \in DOMAIN type_keywords :
                     \E k \in DOMAIN type_keywords[i].keywords :
                       Occurs(type_keywords[i].keywords[k], text_content) }
  IN  IF matching = { } THEN "None"
      ELSE type_keywords[CHOOSE i \in matching : \A j \in matching : i <= j].event_type

\* str(categories), the text of the icalendar library for the object that
\* holds the categories of an event.  The library is free in it: the default
\* text of an object (its class and address, the address left out) or a text
\* that lists the categories, in the order of the CATEGORIES line.
str_categories(tags) ==
  { "<icalendar.prop.vCategory object at 0x...>" }
    \cup { "vCategory([" \o join([ i \in DOMAIN order |->
                                       (IF i = 1 THEN "" ELSE ", ")
                                         \o "vText(b'" \o order[i] \o "')" ])
                         \o "], params=Parameters({}))"
           : order \in iteration_orders(tags) }

\* the event types _detect_event_type can find for an event: one for every
\* text str(categories) can be; without categories the text is not taken
detected_event_types(event) ==
  IF event.tags = { }
    THEN { detect_event_type(event.title, Text(event.description), "") }
    ELSE { detect_event_type(event.title, Text(event.description), categories)
             : categories \in str_categories(event.tags) }

\* event_type of _parse_event_component for the events of the catalogue: for
\* each of them every text of its categories gives the same type
event_type_of ==
  [ id \in EventIds |-> CHOOSE event_type \in detected_event_types(Catalogue[id]) : TRUE ]

\* the events as the fetcher hands them over (_parse_event_component): the
\* event type was detected and update_hash() was called on each
Events(ids) ==
  [ i \in DOMAIN ids |->
      update_hash([ Catalogue[ids[i]] EXCEPT !.event_type = event_type_of[ids[i]] ]) ]

Disjoint(ids1, ids2) ==
  \A i \in DOMAIN ids1, j \in DOMAIN ids2 : ids1[i] # ids2[j]

\* EventDeduplicator(title_weight, ..., time_tolerance_minutes)
NewDeduplicator ==
  /\ \E w \in WeightChoices, tolerance \in Tolerances :
       LET r == EventDeduplicator(w, DuplicateThreshold, tolerance, total_error(w))
       IN  /\ dedup' = IF r.raised = "None" THEN r.value ELSE dedup
           /\ dedup_error' = r.raised
  /\ found' = None
  /\ UNCHANGED OutsideDedup

\* deduplicator.find_duplicates(events, existing_events), on a deduplicator
\* whose last result the caller has dropped
FindDuplicates ==
  /\ dedup # None
  /\ found = None
  /\ \E events \in Batches(MaxNew), existing \in Batches(MaxExisting) :
       /\ Disjoint(events, existing)
       /\ Len(events) + Len(existing) <= MaxCall
       /\ found' = [ events |-> events, existing_events |-> existing,
                     results |-> find_duplicates(dedup, Events(events),
                                                 Events(existing)) ]
  /\ UNCHANGED << dedup, dedup_error >>
  /\ UNCHANGED OutsideDedup

InitDedup ==
  /\ cb = CircuitBreaker(FailureThreshold, RecoveryTimeout, "Exception")
  /\ NoCallers
  /\ NoFetch
  /\ NoEvent
  /\ NoDedup
  /\ NoRequest
  /\ NoICal
  /\ NoInclusion
  /\ NoRegistry
  /\ NoOverlaps

\* the caller drops the result of find_duplicates
DropFound ==
  /\ found # None
  /\ found' = None
  /\ UNCHANGED << dedup, dedup_error >>
  /\ UNCHANGED OutsideDedup

NextDedup == NewDeduplicator \/ FindDuplicates \/ DropFound

SpecDedup == InitDedup /\ [][NextDedup]_vars

Flags ==
  [ apply_formatting : BOOLEAN, apply_colors : BOOLEAN, detect_duplicates : BOOLEAN ]

\* EventProcessor().process_events(new_events, existing_events, ...): one
\* step, the coroutine never awaits.
ProcessEvents ==
  /\ request = None
  /\ \E new \in Batches(MaxNew), existing \in Batches(MaxExisting), flags \in Flags :
       /\ Disjoint(new, existing)
       /\ request' = [ new_events |-> new, existing_events |-> existing,
                       flags |-> flags ]
       /\ process_results' = process_events(dedup, Events(new), Events(existing), flags)
  /\ UNCHANGED OutsideProcessor

\* EventProcessor(): the deduplicator is EventDeduplicator() with its defaults
InitProcessor ==
  /\ cb = CircuitBreaker(FailureThreshold, RecoveryTimeout, "Exception")
  /\ NoCallers
  /\ NoFetch
  /\ NoEvent
  /\ dedup = EventDeduplicator(DefaultWeights, DuplicateThreshold,
                               TimeToleranceMinutes,
                               total_error(DefaultWeights)).value
  /\ dedup_error = "None"
  /\ found = None
  /\ NoRequest
  /\ NoICal
  /\ NoInclusion
  /\ NoRegistry
  /\ NoOverlaps

\* the caller drops what process_events returned
DropResults ==
  /\ request # None
  /\ request' = None
  /\ process_results' = None
  /\ UNCHANGED OutsideProcessor

NextProcessor == ProcessEvents \/ DropResults

SpecProcessor == InitProcessor /\ [][NextProcessor]_vars

\* ------------------------------------------------------------ iCal generator
\* Calendar text is a string, characters and line breaks as the code sees
\* them.  The inputs are ASCII, so an octet is a character.

\* str.startswith, str.endswith, str.strip, str.split on one character
startswith(s, prefix) ==
  Len(s) >= Len(prefix) /\ SubSeq(s, 1, Len(prefix)) = prefix

endswith(s, suffix) ==
  Len(s) >= Len(suffix) /\ SubSeq(s, Len(s) - Len(suffix) + 1, Len(s)) = suffix

\* The characters str.strip() removes: tab, line feed, vertical tab, form
\* feed, carriage return, the four separators 1C to 1F, the space, next
\* line (85) and the no-break space (A0).  Each is the text the module holds
\* for it, one character or the characters of its encoding; the whitespace
\* beyond Latin-1 cannot be written in a string of the model.
whitespace ==
  { "\t", "\n", "", "\f", "\r", "", "", "", "", " ",
    "", " " }

\* s without the longest run of the given characters at each end
RECURSIVE strip_of(_, _)
strip_of(s, characters) ==
  LET leading == { c \in characters : Len(c) <= Len(s) /\ SubSeq(s, 1, Len(c)) = c }
      trailing == { c \in characters :
                     Len(c) <= Len(s) /\ SubSeq(s, Len(s) - Len(c) + 1, Len(s)) = c }
  IN  IF leading # { }
        THEN strip_of(SubSeq(s, Len(CHOOSE c \in leading : TRUE) + 1, Len(s)),
                      characters)
      ELSE IF trailing # { }
        THEN strip_of(SubSeq(s, 1, Len(s) - Len(CHOOSE c \in trailing : TRUE)),
                      characters)
      ELSE s

\* str.strip()
strip(s) == strip_of(s, whitespace)

\* the members of a set of integers in ascending order
RECURSIVE ascending(_)
ascending(set) ==
  IF set = { } THEN << >>
  ELSE LET middle == CHOOSE m \in set :
                       Cardinality({ x \in set : x < m }) = Cardinality(set) \div 2
       IN  ascending({ x \in set : x < middle }) \o << middle >>
             \o ascending({ x \in set : x > middle })

split(s, sep) ==
  LET cuts == ascending({ i \in 1..(Len(s) - Len(sep) + 1) :
                          SubSeq(s, i, i + Len(sep) - 1) = sep })
      n == Len(cuts)
  IN  [ k \in 1..(n + 1) |->
          SubSeq(s, IF k = 1 THEN 1 ELSE cuts[k - 1] + Len(sep),
                    IF k = n + 1 THEN Len(s) ELSE cuts[k] - 1) ]

\* the concatenation of a sequence of sequences
RECURSIVE concat(_)
concat(seqs) ==
  LET n == Len(seqs)
  IN  IF n = 0 THEN << >>
      ELSE IF n = 1 THEN seqs[1]
      ELSE concat(SubSeq(seqs, 1, n \div 2))
             \o concat(SubSeq(seqs, (n \div 2) + 1, n))

\* icalendar's foldline: a content line is cut into pieces of 74 characters,
\* each piece after the first on a new line that starts with a space, so
\* that no line of the text is longer than 75 octets before its line break.
foldline(line) ==
  LET n == Len(line)
      pieces == [ k \in 1..((n + 73) \div 74) |->
                    (IF k = 1 THEN "" ELSE "\r\n ")
                      \o SubSeq(line, 74 * (k - 1) + 1, Min(74 * k, n)) ]
  IN  join(pieces)

\* The text of a TEXT value as icalendar writes it: a backslash, a
\* semicolon and a comma are written after a backslash, a line break as
\* backslash n.
escape(text) ==
  LET line_breaks == join([ i \in 1..Len(text) |->
                             LET c == SubSeq(text, i, i)
                             IN  IF c = "\r" /\ SubSeq(text, i + 1, i + 1) = "\n"
                                   THEN ""
                                 ELSE c ])
  IN  join([ i \in 1..Len(line_breaks) |->
               LET c == SubSeq(line_breaks, i, i)
               IN  IF c \in { "\\", ";", "," } THEN "\\" \o c
                   ELSE IF c = "\n" THEN "\\n"
                   ELSE c ])

\* The TEXT value that icalendar reads from a content line
unescape(text) ==
  LET escaped(i) ==
        /\ i >= 1
        /\ SubSeq(text, i, i) = "\\"
        /\ Cardinality({ k \in 1..i : \A j \in k..i : SubSeq(text, j, j) = "\\" }) % 2 = 1
  IN  join([ i \in 1..Len(text) |->
               LET c == SubSeq(text, i, i)
               IN  IF escaped(i) THEN ""
                   ELSE IF escaped(i - 1) /\ c \in { "n", "N" } THEN "\n"
                   ELSE c ])

\* icalendar components: a name, the properties in the order they were
\* added, the subcomponents in the order they were added.
Component(name) ==
  [ name |-> name, properties |-> << >>, subcomponents |-> << >> ]

\* component.add(name, value), with the parameters of the value (";TZID=..."
\* of a date-time, else none); icalendar writes property names in capitals.
add(component, name, parameters, value) ==
  [ component EXCEPT !.properties =
      Append(@, [ name |-> name, parameters |-> parameters, value |-> value ]) ]

add_component(component, sub) ==
  [ component EXCEPT !.subcomponents = Append(@, sub) ]

\* The characters of property names in the order of their code points, and
\* a < b on property names as Python compares strings.
name_characters == "-0123456789ABCDEFGHIJKLMNOPQRSTUVWXYZ"

ord(c) ==
  CHOOSE i \in 1..Len(name_characters) : SubSeq(name_characters, i, i) = c

RECURSIVE before(_, _)
before(a, b) ==
  IF b = "" THEN FALSE
  ELSE IF a = "" THEN TRUE
  ELSE IF SubSeq(a, 1, 1) = SubSeq(b, 1, 1)
       THEN before(SubSeq(a, 2, Len(a)), SubSeq(b, 2, Len(b)))
  ELSE ord(SubSeq(a, 1, 1)) < ord(SubSeq(b, 1, 1))

\* Component.canonical_order of the component classes
canonical_order(name) ==
  CASE name = "VCALENDAR" -> << "VERSION", "PRODID", "CALSCALE", "METHOD" >>
    [] name = "VEVENT" ->
         << "SUMMARY", "DTSTART", "DTEND", "DURATION", "DTSTAMP", "UID",
            "RECURRENCE-ID", "SEQUENCE", "RRULE", "RDATE", "EXDATE" >>
    [] name = "VTIMEZONE" -> << "TZID" >>
    [] OTHER -> << >>

\* CaselessDict.sorted_keys: the keys of the canonical order that are
\* present, in that order, then the other keys sorted
sorted_keys(component) ==
  LET keys == { component.properties[i].name : i \in DOMAIN component.properties }
      canonical == canonical_order(component.name)
      canon_keys == SelectSeq(canonical, LAMBDA k : k \in keys)
      remaining == keys \ { canonical[i] : i \in DOMAIN canonical }
  IN  canon_keys
        \o [ i \in 1..Cardinality(remaining) |->
               CHOOSE k \in remaining :
                 Cardinality({ j \in remaining : before(j, k) }) = i - 1 ]

\* Component.property_items(sorted=True), without BEGIN and END: under each
\* key in turn, the values added under it in the order they were added
property_items(component) ==
  LET property_names == sorted_keys(component)
  IN  concat([ n \in DOMAIN property_names |->
                 SelectSeq(component.properties,
                           LAMBDA p : p.name = property_names[n]) ])

\* component.to_ical(): BEGIN, the properties in sorted order, the
\* subcomponents, END, every content line folded and ended by CRLF.
RECURSIVE to_ical(_)
to_ical(component) ==
  LET properties == property_items(component)
  IN  foldline("BEGIN:" \o component.name) \o "\r\n"
        \o join([ i \in DOMAIN properties |->
                   foldline(properties[i].name \o properties[i].parameters
                              \o ":" \o properties[i].value) \o "\r\n" ])
        \o join([ i \in DOMAIN component.subcomponents |->
                   to_ical(component.subcomponents[i]) ])
        \o foldline("END:" \o component.name) \o "\r\n"

\* component.walk(): the component, then its descendants, depth first
RECURSIVE walk(_)
walk(component) ==
  << component >>
    \o concat([ i \in DOMAIN component.subcomponents |->
                  walk(component.subcomponents[i]) ])

\* component.get(name) / component[name] / name in component
has(component, name) ==
  \E i \in DOMAIN component.properties : component.properties[i].name = name

get(component, name) ==
  LET at == { i \in DOMAIN component.properties :
                component.properties[i].name = name }
  IN  component.properties[CHOOSE i \in at : \A j \in at : i >= j]

\* The time zones of the inputs, as zoneinfo gives them for the current year:
\* the UTC offset on January 1st in minutes with its name, and for a zone
\* with daylight time the first wall-clock minute at which the DST flag is
\* set, the first one after it at which it is not, and the offset and name
\* in between.  A date is 100 * month + day, a time 100 * hour + minute, a
\* wall-clock minute 10000 * date + time; a wall-clock time that the change
\* skips or repeats is read with fold=0.  The flag is not set on December
\* 31st of the year before.  "GMT" is a key of its own; the abbreviations
\* "CST", "CDT", "BST" and "JST" are not keys.
ZoneInfo ==
  [ America_Chicago |->
      [ key |-> "America/Chicago", offset |-> -360, tzname |-> "CST",
        daylight |-> [ from |-> 3080300, until |-> 11010200, offset |-> -300,
                       tzname |-> "CDT" ] ],
    Europe_London |->
      [ key |-> "Europe/London", offset |-> 0, tzname |-> "GMT",
        daylight |-> [ from |-> 3290200, until |-> 10250200, offset |-> 60,
                       tzname |-> "BST" ] ],
    Asia_Tokyo |->
      [ key |-> "Asia/Tokyo", offset |-> 540, tzname |-> "JST",
        daylight |-> None ],
    GMT |->
      [ key |-> "GMT", offset |-> 0, tzname |-> "GMT", daylight |-> None ] ]

\* datetime.now().year
CurrentYear == 2026

\* A date-time of the zone at the wall-clock time `time` of `date`: dst()
\* is set, utcoffset(), tzname() / strftime("%Z")
dst(tz_info, date, time) ==
  /\ tz_info.daylight # None
  /\ tz_info.daylight.from <= 10000 * date + time
  /\ 10000 * date + time < tz_info.daylight.until

utcoffset(tz_info, date, time) ==
  IF dst(tz_info, date, time) THEN tz_info.daylight.offset ELSE tz_info.offset

tzname(tz_info, date, time) ==
  IF dst(tz_info, date, time) THEN tz_info.daylight.tzname ELSE tz_info.tzname

\* dt.replace(tzinfo=None) as iCal writes it: YYYYMMDDT020000
local_time(year, date) ==
  LET digit == << "0", "1", "2", "3", "4", "5", "6", "7", "8", "9" >>
      digits(n) == digit[(n \div 10) + 1] \o digit[(n % 10) + 1]
  IN  digits(year \div 100) \o digits(year % 100)
        \o digits(date \div 100) \o digits(date % 100) \o "T020000"

\* _get_dst_transitions(tz_info, year): the 1st, 8th, 15th and 22nd of each
\* month at 02:00 are compared with the day before (the 1st with the 28th of
\* the month before, January 1st with December 31st, date 0).
get_dst_transitions(tz_info, year) ==
  LET probes == [ k \in 1..48 |->
                    [ month |-> ((k - 1) \div 4) + 1,
                      day |-> << 1, 8, 15, 22 >>[((k - 1) % 4) + 1] ] ]
      dt(p) == 100 * p.month + p.day
      prev_dt(p) == IF p.day > 1 THEN 100 * p.month + p.day - 1
                    ELSE IF p.month > 1 THEN 100 * (p.month - 1) + 28
                    ELSE 0
      found_at == SelectSeq(probes, LAMBDA p :
                    dst(tz_info, dt(p), 200) # dst(tz_info, prev_dt(p), 200))
  IN  [ i \in DOMAIN found_at |->
          [ start |-> local_time(year, dt(found_at[i])),
            is_dst |-> dst(tz_info, dt(found_at[i]), 200),
            offset_from |-> utcoffset(tz_info, prev_dt(found_at[i]), 200),
            offset_to |-> utcoffset(tz_info, dt(found_at[i]), 200),
            name |-> tzname(tz_info, dt(found_at[i]), 200) ] ]

zone(tz_name) == ZoneInfo[CHOOSE z \in DOMAIN ZoneInfo : ZoneInfo[z].key = tz_name]

\* _format_offset(timedelta(minutes=offset))
format_offset(offset) ==
  LET digit == << "0", "1", "2", "3", "4", "5", "6", "7", "8", "9" >>
      two_digits(n) == digit[(n \div 10) + 1] \o digit[(n % 10) + 1]
      total_seconds == offset * 60
      hours == Abs(total_seconds) \div 3600
      minutes == (Abs(total_seconds) % 3600) \div 60
  IN  (IF total_seconds >= 0 THEN "+" ELSE "-")
        \o two_digits(hours) \o two_digits(minutes)

\* _create_timezone_component(tz_name).  `accepted` is whether the icalendar
\* library takes the offset strings (it is not part of the repository):
\* when it raises, the method logs the error and returns None.
create_timezone_component(tz_name, accepted) ==
  IF (\A z \in DOMAIN ZoneInfo : ZoneInfo[z].key # tz_name) \/ ~accepted THEN None
  ELSE
    LET tz_info == zone(tz_name)
        tz == add(Component("VTIMEZONE"), "TZID", "", tz_name)
        standard_only ==
          add(add(add(add(Component("STANDARD"),
            "DTSTART", "", "19700101T000000"),
            "TZOFFSETFROM", "", format_offset(tz_info.offset)),
            "TZOFFSETTO", "", format_offset(tz_info.offset)),
            "TZNAME", "", tz_info.tzname)
        observance(transition) ==
          add(add(add(add(add(
            Component(IF transition.is_dst THEN "DAYLIGHT" ELSE "STANDARD"),
            "DTSTART", "", transition.start),
            "TZOFFSETFROM", "", format_offset(transition.offset_from)),
            "TZOFFSETTO", "", format_offset(transition.offset_to)),
            "TZNAME", "", transition.name),
            "RRULE", "", "FREQ=YEARLY")
        RECURSIVE with(_, _)
        with(c, transitions) ==
          IF transitions = << >> THEN c
          ELSE with(add_component(c, observance(Head(transitions))),
                    Tail(transitions))
        dst_transitions == get_dst_transitions(tz_info, CurrentYear)
    IN  IF dst_transitions = << >>
          THEN add_component(tz, standard_only)
          ELSE with(tz, dst_transitions)

\* the number a text of decimal digits writes
RECURSIVE decimal(_)
decimal(digits) ==
  IF digits = "" THEN 0
  ELSE 10 * decimal(SubSeq(digits, 1, Len(digits) - 1))
         + (CHOOSE d \in 0..9 :
              SubSeq("0123456789", d + 1, d + 1)
                = SubSeq(digits, Len(digits), Len(digits)))

\* int(text): whitespace around the number is dropped, but not the
\* separators 1C to 1F; a sign may lead, the digits may be grouped by single
\* underscores; any other text raises ValueError.
int(text) ==
  LET number == strip_of(text, whitespace \ { "", "", "", "" })
      signed == number # "" /\ SubSeq(number, 1, 1) \in { "+", "-" }
      body == IF signed THEN SubSeq(number, 2, Len(number)) ELSE number
      is_digit(i) ==
        \E d \in 1..10 : SubSeq("0123456789", d, d) = SubSeq(body, i, i)
      well_formed ==
        /\ body # ""
        /\ \A i \in 1..Len(body) : is_digit(i) \/ SubSeq(body, i, i) = "_"
        /\ is_digit(1) /\ is_digit(Len(body))
        /\ ~Occurs("__", body)
  IN  IF ~well_formed THEN [ raised |-> "ValueError", value |-> 0 ]
      ELSE [ raised |-> "None",
             value |-> (IF SubSeq(number, 1, 1) = "-" THEN -1 ELSE 1)
                         * decimal(join(split(body, "_"))) ]

\* The name _add_timezone_component takes from a DTSTART or DTEND: the
\* tzinfo's `zone` when it has one (a zoneinfo zone has none), else the
\* tzname() of the date-time itself unless that is "UTC".  A date-time is
\* written YYYYMMDDTHHMMSS with ";TZID=<key>" when its zone is not UTC.
timezone_of(property) ==
  IF property.parameters = "" THEN { }
  ELSE LET key == SubSeq(property.parameters, 7, Len(property.parameters))
           date == decimal(SubSeq(property.value, 5, 8))
           time == decimal(SubSeq(property.value, 10, 13))
       IN  { tzname(zone(key), date, time) } \ { "UTC" }

\* timezones_needed of _add_timezone_component(cal): the zones of the VEVENTs
\* that are in the calendar when it is called, and the default zone unless
\* it is UTC.
timezones_needed(self, cal) ==
  LET components == walk(cal)
      of_events ==
        UNION { IF components[i].name # "VEVENT" THEN { }
                ELSE (IF has(components[i], "DTSTART")
                        THEN timezone_of(get(components[i], "DTSTART")) ELSE { })
                  \cup (IF has(components[i], "DTEND")
                        THEN timezone_of(get(components[i], "DTEND")) ELSE { })
              : i \in DOMAIN components }
  IN  of_events \cup (IF self.timezone_name \notin {"", "UTC"}
                        THEN { self.timezone_name } ELSE { })

\* _add_timezone_component(cal): the calendars it can leave, one for each
\* order in which timezones_needed can be visited.
add_timezone_component(self, cal, accepted) ==
  LET RECURSIVE with(_, _)
      with(c, names) ==
        IF names = << >> THEN c
        ELSE LET tz_component == create_timezone_component(Head(names), accepted)
             IN  with(IF tz_component # None
                        THEN add_component(c, tz_component) ELSE c,
                      Tail(names))
  IN  { with(cal, order) : order \in iteration_orders(timezones_needed(self, cal)) }

\* The events handed to the generator: EventModel objects with the fields
\* the generator reads.  A date-time is its local wall-clock time and the
\* key of its zone; "" is an absent or empty text, "None" an absent
\* identifier.  last_modified is never absent: EventModel fills it in.
\* uid_hash is the md5 of title, start, end and source name; status is the
\* value of the event's EventStatus.
Encodable ==
  [ g1 |->
      [ title |-> "Soccer Practice", description |-> "", location |-> "Field",
        source_name |-> "A", color |-> "#00AA00", event_type |-> "None",
        tags |-> << >>, original_uid |-> "None", source_url |-> "None",
        start_time |-> [ local |-> "20261103T100000", tz |-> "UTC" ],
        end_time |-> [ local |-> "20261103T110000", tz |-> "UTC" ],
        uid_hash |-> "8e29616376312294dd64a020b37f48c8",
        last_modified |-> "20261030T090000Z", sequence |-> "0",
        status |-> "confirmed" ],
    g2 |->
      [ title |-> "Swim Meet",
        description |-> "Bring water and shin guards. Parking is behind the gym. Parents are asked to stay for the short team meeting after practice to talk about the tournament schedule.",
        location |-> "Pool",
        source_name |-> "B", color |-> "", event_type |-> "None",
        tags |-> << "u12" >>, original_uid |-> "meet-42",
        source_url |-> "None",
        start_time |-> [ local |-> "20261103T100000", tz |-> "America/Chicago" ],
        end_time |-> [ local |-> "20261103T120000", tz |-> "America/Chicago" ],
        uid_hash |-> "6499fac54de8796041cae5d7fc761953",
        last_modified |-> "20261029T180000Z", sequence |-> "0",
        status |-> "tentative" ],
    g3 |->
      [ title |-> "Regional Championship Tournament Quarter Final Round Two at the Northside Athletic Complex Main Field",
        description |-> "", location |-> "",
        source_name |-> "C", color |-> "#FF0000", event_type |-> "game",
        tags |-> << >>, original_uid |-> "None",
        source_url |-> "https://example.org/c.ics",
        start_time |-> [ local |-> "20261104T180000", tz |-> "Europe/London" ],
        end_time |-> [ local |-> "20261104T200000", tz |-> "Europe/London" ],
        uid_hash |-> "966063467324863e5950a16f71aa7043",
        last_modified |-> "20261030T090000Z", sequence |-> "0",
        status |-> "cancelled" ],
    g4 |->
      [ title |-> "Swim Meet", description |-> "", location |-> "Pool",
        source_name |-> "D", color |-> "", event_type |-> "None",
        tags |-> << >>, original_uid |-> "meet-42", source_url |-> "None",
        start_time |-> [ local |-> "20261103T100000", tz |-> "UTC" ],
        end_time |-> [ local |-> "20261103T120000", tz |-> "UTC" ],
        uid_hash |-> "903b542f1b598d6e454a4f792ebade83",
        last_modified |-> "20261029T180500Z", sequence |-> "0",
        status |-> "confirmed" ] ]

\* datetime.now(timezone.utc) while the calendar is generated
UtcNow == "20261030T120000Z"

\* _generate_event_uid: an empty original_uid counts as none
generate_event_uid(event) ==
  IF event.original_uid \notin { "None", "" } THEN event.original_uid \o "@rallycal"
  ELSE event.uid_hash \o "@rallycal"

\* str.lstrip(chars) with one character
RECURSIVE lstrip(_, _)
lstrip(text, char) ==
  IF text # "" /\ SubSeq(text, 1, 1) = char
    THEN lstrip(SubSeq(text, 2, Len(text)), char) ELSE text

\* _get_outlook_color_mapping: the colour is looked up in upper case
get_outlook_color_mapping(color) ==
  LET color_mappings ==
        [ c \in { "#FF0000", "#00FF00", "#0000FF", "#FFFF00", "#FF00FF",
                  "#00FFFF", "#FFA500", "#800080", "#FFC0CB", "#A52A2A" } |->
            CASE c = "#FF0000" -> "1" [] c = "#00FF00" -> "2"
              [] c = "#0000FF" -> "3" [] c = "#FFFF00" -> "4"
              [] c = "#FF00FF" -> "5" [] c = "#00FFFF" -> "6"
              [] c = "#FFA500" -> "7" [] c = "#800080" -> "8"
              [] c = "#FFC0CB" -> "9" [] c = "#A52A2A" -> "10" ]
  IN  IF upper(color) \in DOMAIN color_mappings
        THEN color_mappings[upper(color)] ELSE "None"

\* _add_event_to_calendar(cal, event)
add_event_to_calendar(cal, event) ==
  LET date_time(c, name, t) ==
        IF t.tz = "UTC" THEN add(c, name, "", t.local \o "Z")
        ELSE add(c, name, ";TZID=" \o t.tz, t.local)
      optional(c, present, name, value) ==
        IF present THEN add(c, name, "", value) ELSE c
      RECURSIVE commas(_)
      commas(values) ==
        IF Len(values) = 1 THEN escape(values[1])
        ELSE escape(values[1]) \o "," \o commas(Tail(values))
      e1 == add(Component("VEVENT"), "UID", "", escape(generate_event_uid(event)))
      e2 == date_time(e1, "DTSTART", event.start_time)
      e3 == date_time(e2, "DTEND", event.end_time)
      e4 == add(e3, "DTSTAMP", "", UtcNow)
      e5 == add(e4, "SUMMARY", "", escape(event.title))
      e6 == optional(e5, event.description # "", "DESCRIPTION",
                     escape(event.description))
      e7 == optional(e6, event.location # "", "LOCATION", escape(event.location))
      e8 == optional(e7, event.source_name # "", "X-RALLYCAL-SOURCE",
                     escape(event.source_name))
      color_map == get_outlook_color_mapping(event.color)
      e9 == IF event.color = "" THEN e8
            ELSE optional(
                   add(add(add(e8,
                     "CATEGORIES", "", "Color-" \o upper(lstrip(event.color, "#"))),
                     "X-APPLE-STRUCTURED-LOCATION", "", event.color),
                     "X-MICROSOFT-CDO-BUSYSTATUS", "", "BUSY"),
                   color_map # "None", "X-MICROSOFT-CDO-IMPORTANCE", color_map)
      title(text) == upper(SubSeq(text, 1, 1)) \o SubSeq(text, 2, Len(text))
      categories ==
        (IF event.event_type # "None"
           THEN << title(event.event_type) >> ELSE << >>) \o event.tags
      e10 == optional(e9, categories # << >>, "CATEGORIES", commas(categories))
      label == "[" \o event.source_name \o "]"
      e11 == IF event.source_name # "" /\ ~startswith(event.title, label)
               THEN [ e10 EXCEPT !.properties =
                        [ i \in DOMAIN @ |->
                            IF @[i].name = "SUMMARY"
                              THEN [ @[i] EXCEPT !.value =
                                       escape(label \o " " \o event.title) ]
                              ELSE @[i] ] ]
               ELSE e10
      e12 == optional(e11, event.original_uid \notin { "None", "" },
                      "X-RALLYCAL-ORIGINAL-UID", escape(event.original_uid))
      e13 == optional(e12, event.source_url \notin { "None", "" },
                      "X-RALLYCAL-SOURCE-URL", escape(event.source_url))
      e14 == add(e13, "LAST-MODIFIED", "",
                 IF event.last_modified \notin { "None", "" }
                   THEN event.last_modified
                 ELSE UtcNow)
      e15 == add(e14, "SEQUENCE", "", event.sequence)
      e16 == add(e15, "STATUS", "", "CONFIRMED")
      e17 == add(e16, "TRANSP", "", "OPAQUE")
  IN  add_component(cal, e17)

\* ICalGenerator(timezone_name=...)
ICalGenerator(timezone_name) ==
  [ calendar_name |-> "RallyCal Aggregated Calendar",
    description |-> "Aggregated sports calendar from multiple sources",
    timezone_name |-> timezone_name,
    generated_at |-> None,
    etag |-> None ]

\* _generate_etag(content): the md5 digest of the text between quotes
generate_etag(content) == [ quoted |-> md5(content) ]

\* generate_calendar(events, include_timezone): the texts it can return
generate_calendar(self, events, include_timezone, accepted) ==
  LET c1 == add(Component("VCALENDAR"), "PRODID", "", "-//RallyCal//RallyCal v1.0//EN")
      c2 == add(c1, "VERSION", "", "2.0")
      c3 == add(c2, "CALSCALE", "", "GREGORIAN")
      c4 == add(c3, "METHOD", "", "PUBLISH")
      c5 == add(c4, "X-WR-CALNAME", "", escape(self.calendar_name))
      c6 == add(c5, "X-WR-CALDESC", "", escape(self.description))
      c7 == add(c6, "X-WR-TIMEZONE", "", escape(self.timezone_name))
      c8 == add(c7, "REFRESH-INTERVAL", "", "PT1H")
      c9 == add(c8, "X-PUBLISHED-TTL", "", "PT1H")
      with_timezones ==
        IF include_timezone /\ events # << >>
          THEN add_timezone_component(self, c9, accepted) ELSE { c9 }
      RECURSIVE with(_, _)
      with(cal, rest) ==
        IF rest = << >> THEN cal
        ELSE with(add_event_to_calendar(cal, Head(rest)), Tail(rest))
  IN  { to_ical(with(c10, events)) : c10 \in with_timezones }

\* ------------------------------------------------------------ iCal validator
\* The component that begins at line b of the unfolded lines; open[i] is the
\* number of components open at line i.  BEGIN opens a component, END
\* closes it, any other line is a property of the component that is open.
RECURSIVE parse_component(_, _, _)
parse_component(lines, open, b) ==
  LET closing ==
        CHOOSE e \in DOMAIN lines :
          /\ e > b /\ startswith(lines[e], "END:") /\ open[e] = open[b]
          /\ \A x \in (b + 1)..(e - 1) :
               ~(startswith(lines[x], "END:") /\ open[x] = open[b])
      inside == (b + 1)..(closing - 1)
      own == ascending({ i \in inside :
               /\ ~startswith(lines[i], "BEGIN:") /\ ~startswith(lines[i], "END:")
               /\ lines[i] # ""
               /\ open[i] = open[b] })
      subs == ascending({ i \in inside :
                startswith(lines[i], "BEGIN:") /\ open[i] = open[b] + 1 })
      property(line) ==
        LET marks == { i \in 1..Len(line) : SubSeq(line, i, i) \in {":", ";"} }
            colons == { i \in 1..Len(line) : SubSeq(line, i, i) = ":" }
            mark == CHOOSE i \in marks : \A j \in marks : i <= j
            colon == CHOOSE i \in colons : \A j \in colons : i <= j
        IN  [ name |-> SubSeq(line, 1, mark - 1),
              parameters |-> SubSeq(line, mark, colon - 1),
              value |-> SubSeq(line, colon + 1, Len(line)) ]
  IN  [ name |-> SubSeq(lines[b], 7, Len(lines[b])),
        properties |-> [ k \in DOMAIN own |-> property(lines[own[k]]) ],
        subcomponents |->
          [ k \in DOMAIN subs |-> parse_component(lines, open, subs[k]) ] ]

\* The content lines of a text: the folds (a line break followed by a
\* space or a tab) are taken out, the lines are without their line breaks.
content_lines(calendar_content) ==
  LET without(text, fold) == join(split(text, fold))
      raw == split(without(without(without(without(calendar_content,
                     "\r\n "), "\r\n\t"), "\n "), "\n\t"), "\n")
  IN  [ i \in DOMAIN raw |->
          IF endswith(raw[i], "\r")
            THEN SubSeq(raw[i], 1, Len(raw[i]) - 1) ELSE raw[i] ]

\* for each line, the number of components that are open at it
open_at(lines) ==
  [ i \in DOMAIN lines |->
      Cardinality({ b \in 1..i : startswith(lines[b], "BEGIN:") })
        - Cardinality({ e \in 1..(i - 1) : startswith(lines[e], "END:") }) ]

\* the calendar the lines describe, or None where the parser raises
parse(lines, open) ==
  IF /\ Cardinality({ b \in DOMAIN lines : startswith(lines[b], "BEGIN:") })
          = Cardinality({ e \in DOMAIN lines : startswith(lines[e], "END:") })
     /\ Cardinality({ b \in DOMAIN lines :
                        startswith(lines[b], "BEGIN:") /\ open[b] = 1 }) = 1
     /\ \A i \in DOMAIN lines :
          \/ lines[i] = ""
          \/ startswith(lines[i], "BEGIN:")
          \/ /\ open[i] >= 1
             /\ \E j \in 1..Len(lines[i]) : SubSeq(lines[i], j, j) = ":"
    THEN parse_component(lines, open,
           CHOOSE b \in DOMAIN lines :
             startswith(lines[b], "BEGIN:") /\ open[b] = 1)
    ELSE None

\* Calendar.from_ical(calendar_content)
from_ical(calendar_content) ==
  LET lines == content_lines(calendar_content)
  IN  parse(lines, open_at(lines))

\* _validate_offset_format: ^[+-]\d{4}$, where $ also matches before a line
\* feed that ends the text
validate_offset_format(offset) ==
  /\ \/ Len(offset) = 5
     \/ Len(offset) = 6 /\ SubSeq(offset, 6, 6) = "\n"
  /\ SubSeq(offset, 1, 1) \in {"+", "-"}
  /\ \A i \in 2..5 :
       SubSeq(offset, i, i) \in {"0", "1", "2", "3", "4", "5", "6", "7", "8", "9"}

\* errors.append(message) when the condition holds
error_if(condition, message) == IF condition THEN << message >> ELSE << >>

\* str(component[offset_prop]): the parser hands a TZOFFSETFROM or TZOFFSETTO
\* over as a vUTCOffset object, and str() of it is the text of the library
\* for the object, its class and address, not the offset as the line writes
\* it.  The address, which differs from object to object, is left out.
str_offset(property) == "<icalendar.prop.vUTCOffset object at 0x...>"

\* _validate_timezone_component(component, comp_type)
validate_timezone_component(component, comp_type) ==
  LET offset_value(offset_prop) == str_offset(get(component, offset_prop))
      offset_error(offset_prop) ==
        error_if(has(component, offset_prop)
                   /\ ~validate_offset_format(offset_value(offset_prop)),
                 comp_type \o ": Invalid " \o offset_prop \o " format: "
                   \o (IF has(component, offset_prop)
                         THEN offset_value(offset_prop) ELSE ""))
  IN  error_if(~has(component, "DTSTART"), comp_type \o ": DTSTART is required")
        \o error_if(~has(component, "TZOFFSETFROM"),
                    comp_type \o ": TZOFFSETFROM is required")
        \o error_if(~has(component, "TZOFFSETTO"),
                    comp_type \o ": TZOFFSETTO is required")
        \o offset_error("TZOFFSETFROM") \o offset_error("TZOFFSETTO")

\* _validate_timezones(cal)
validate_timezones(cal) ==
  LET of_sub(sub) ==
        IF sub.name \in {"STANDARD", "DAYLIGHT"}
          THEN validate_timezone_component(sub, sub.name) ELSE << >>
      of_component(component) ==
        IF component.name # "VTIMEZONE" THEN << >>
        ELSE error_if(~has(component, "TZID"), "VTIMEZONE: TZID is required")
               \o concat([ i \in DOMAIN component.subcomponents |->
                             of_sub(component.subcomponents[i]) ])
               \o error_if(~\E i \in DOMAIN component.subcomponents :
                              component.subcomponents[i].name
                                \in {"STANDARD", "DAYLIGHT"},
                           "VTIMEZONE: Must have at least one STANDARD or DAYLIGHT component")
      components == walk(cal)
  IN  concat([ i \in DOMAIN components |-> of_component(components[i]) ])

\* _validate_events(cal)
validate_events(cal) ==
  LET events == SelectSeq(walk(cal), LAMBDA c : c.name = "VEVENT")
      value(component, name) ==
        IF has(component, name) THEN unescape(get(component, name).value) ELSE ""
      of_event(component, event_count) ==
        LET e == "Event " \o str(event_count) \o ": "
            has_dtstart == has(component, "DTSTART")
            has_dtend == has(component, "DTEND")
            has_duration == has(component, "DURATION")
        IN  error_if(~has(component, "UID"), e \o "Unique identifier is required")
              \o error_if(~has(component, "DTSTAMP"),
                          e \o "Date-time stamp is required")
              \o error_if(~has_dtstart, e \o "DTSTART is required")
              \o error_if(has_dtstart /\ ~(has_dtend \/ has_duration),
                          e \o "Must have either DTEND or DURATION with DTSTART")
              \o error_if(has_dtend /\ has_duration,
                          e \o "Cannot have both DTEND and DURATION")
              \o error_if(has(component, "UID")
                            /\ \A i \in 1..Len(value(component, "UID")) :
                                 SubSeq(value(component, "UID"), i, i) # "@",
                          e \o "UID should contain '@' for uniqueness")
              \o error_if(has(component, "SUMMARY")
                            /\ Len(value(component, "SUMMARY")) > 255,
                          e \o "SUMMARY longer than 255 characters")
              \o error_if(has(component, "SEQUENCE")
                            /\ int(value(component, "SEQUENCE")).raised = "None"
                            /\ int(value(component, "SEQUENCE")).value < 0,
                          e \o "SEQUENCE must be non-negative")
              \o error_if(has(component, "SEQUENCE")
                            /\ int(value(component, "SEQUENCE")).raised # "None",
                          e \o "SEQUENCE must be integer")
              \o error_if(has(component, "STATUS")
                            /\ value(component, "STATUS")
                                 \notin {"TENTATIVE", "CONFIRMED", "CANCELLED"},
                          e \o "Invalid STATUS '" \o value(component, "STATUS") \o "'")
              \o error_if(has(component, "TRANSP")
                            /\ value(component, "TRANSP")
                                 \notin {"OPAQUE", "TRANSPARENT"},
                          e \o "Invalid TRANSP '" \o value(component, "TRANSP") \o "'")
  IN  concat([ n \in DOMAIN events |-> of_event(events[n], n) ])
        \o error_if(Len(events) = 0, "No events found in calendar")

\* The loop of _validate_structure over the BEGIN and END lines (the other
\* lines leave the stack of open BEGINs as it is): marked[k] is the number
\* of the k-th such line.
RECURSIVE balance(_, _, _, _)
balance(lines, marked, k, begin_stack) ==
  IF k > Len(marked)
    THEN [ j \in DOMAIN begin_stack |->
             "Line " \o str(begin_stack[j][2]) \o ": BEGIN:"
               \o begin_stack[j][1] \o " without matching END" ]
  ELSE LET i == marked[k]
           line == strip(lines[i])
           n == Len(begin_stack)
           component_type == SubSeq(line, 5, Len(line))
       IN  IF startswith(line, "BEGIN:")
             THEN balance(lines, marked, k + 1,
                    Append(begin_stack, << SubSeq(line, 7, Len(line)), i >>))
           ELSE IF n = 0
             THEN << "Line " \o str(i) \o ": END:" \o component_type
                       \o " without matching BEGIN" >>
                    \o balance(lines, marked, k + 1, begin_stack)
           ELSE error_if(begin_stack[n][1] # component_type,
                         "Line " \o str(i) \o ": END:" \o component_type
                           \o " doesn't match BEGIN:" \o begin_stack[n][1]
                           \o " on line " \o str(begin_stack[n][2]))
                  \o balance(lines, marked, k + 1, SubSeq(begin_stack, 1, n - 1))

\* _validate_structure(calendar_content)
validate_structure(calendar_content) ==
  LET lines == split(calendar_content, "\n")
      marked == ascending({ i \in DOMAIN lines :
                  \/ startswith(strip(lines[i]), "BEGIN:")
                  \/ startswith(strip(lines[i]), "END:") })
  IN  error_if(~startswith(strip(lines[1]), "BEGIN:VCALENDAR"),
               "Calendar must start with BEGIN:VCALENDAR")
        \o error_if(~endswith(strip(lines[Len(lines)]), "END:VCALENDAR"),
                    "Calendar must end with END:VCALENDAR")
        \o balance(lines, marked, 1, << >>)

\* _validate_line_lengths(calendar_content)
validate_line_lengths(calendar_content) ==
  LET lines == split(calendar_content, "\n")
      long == ascending({ i \in DOMAIN lines : Len(lines[i]) > 75 })
  IN  [ k \in DOMAIN long |->
          "Line " \o str(long[k]) \o ": Exceeds 75 octets ("
            \o str(Len(lines[long[k]])) \o " octets)" ]

\* validate_calendar once the text is parsed: cal is the parsed calendar.
\* cal_component is the first VCALENDAR of cal.walk(); a component counts
\* as found whether it has properties or not.  The message of a parse
\* failure ends with the text of the library's exception, which is left out.
validate_parsed(cal, calendar_content) ==
  LET calendars == IF cal = None THEN << >>
               ELSE SelectSeq(walk(cal), LAMBDA c : c.name = "VCALENDAR")
      cal_component == calendars[1]
      value(name) ==
        IF has(cal_component, name)
          THEN unescape(get(cal_component, name).value) ELSE ""
      errors ==
        error_if(~has(cal_component, "PRODID"), "Product identifier is required")
          \o error_if(~has(cal_component, "VERSION"),
                      "Version is required (must be 2.0)")
          \o error_if(has(cal_component, "VERSION") /\ value("VERSION") # "2.0",
                      "VERSION must be 2.0, found: " \o value("VERSION"))
          \o error_if(has(cal_component, "PRODID")
                        /\ \/ ~startswith(value("PRODID"), "-//")
                           \/ \A i \in 4..(Len(value("PRODID")) - 1) :
                                SubSeq(value("PRODID"), i, i + 1) # "//",
                      "PRODID format invalid: " \o value("PRODID"))
          \o error_if(has(cal_component, "CALSCALE")
                        /\ value("CALSCALE") # "GREGORIAN",
                      "CALSCALE must be GREGORIAN if present, found: "
                        \o value("CALSCALE"))
          \o validate_events(cal) \o validate_timezones(cal)
          \o validate_structure(calendar_content)
          \o validate_line_lengths(calendar_content)
  IN  IF cal = None
        THEN [ is_valid |-> FALSE, errors |-> << "Failed to parse calendar: " >> ]
      ELSE IF calendars = << >>
        THEN [ is_valid |-> FALSE, errors |-> << "No VCALENDAR component found" >> ]
      ELSE [ is_valid |-> Len(errors) = 0, errors |-> errors ]

\* validate_calendar(calendar_content): (is_valid, errors)
validate_calendar(calendar_content) ==
  validate_parsed(from_ical(calendar_content), calendar_content)

\* ---------------------------------------------------- iCal generator: actions
DefaultTimezones ==
  { "UTC", "America/Chicago", "Asia/Tokyo", "Europe/London", "GMT" }

\* the event lists of at most n events, without repetition
Encodings(n) ==
  { ids \in UNION { [1..k -> DOMAIN Encodable] : k \in 0..n } :
      \A i, j \in DOMAIN ids : i # j => ids[i] # ids[j] }

InitICal ==
  /\ cb = CircuitBreaker(FailureThreshold, RecoveryTimeout, "Exception")
  /\ NoCallers
  /\ NoFetch
  /\ NoEvent
  /\ NoDedup
  /\ NoRequest
  /\ NoInclusion
  /\ NoRegistry
  /\ NoOverlaps
  /\ generator \in { ICalGenerator(tz) : tz \in DefaultTimezones }
  /\ encoded = None
  /\ calendar_text = ""
  /\ validation = None

\* generator.generate_calendar(events, include_timezone)
GenerateCalendar ==
  /\ encoded = None
  /\ \E ids \in Encodings(MaxEncoded), include_timezone \in BOOLEAN,
        accepted \in BOOLEAN :
       /\ encoded' = [ events |-> ids, include_timezone |-> include_timezone,
                       accepted |-> accepted ]
       /\ calendar_text' \in
            generate_calendar(generator, [ i \in DOMAIN ids |-> Encodable[ids[i]] ],
                              include_timezone, accepted)
  /\ generator' = [ generator EXCEPT !.generated_at = UtcNow,
                                     !.etag = generate_etag(calendar_text') ]
  /\ UNCHANGED validation
  /\ UNCHANGED OutsideICal

\* generator.validate_calendar(calendar_text) on the text just generated
ValidateCalendar ==
  /\ encoded # None
  /\ validation = None
  /\ validation' = validate_calendar(calendar_text)
  /\ UNCHANGED << generator, encoded, calendar_text >>
  /\ UNCHANGED OutsideICal

\* the caller drops the text and the generator; the next text is that of a
\* new generator with the same default zone
DropCalendar ==
  /\ encoded # None
  /\ encoded' = None
  /\ calendar_text' = ""
  /\ validation' = None
  /\ generator' = ICalGenerator(generator.timezone_name)
  /\ UNCHANGED OutsideICal

NextICal == GenerateCalendar \/ ValidateCalendar \/ DropCalendar

SpecICal == InitICal /\ [][NextICal]_vars

\* ------------------------------------------------------------ keyword filter
\* for keyword in keywords: if keyword.lower() in searchable_text: return
RECURSIVE first_match(_, _)
first_match(keywords, searchable_text) ==
  IF keywords = << >> THEN FALSE
  ELSE IF Occurs(lower(Head(keywords)), searchable_text) THEN TRUE
  ELSE first_match(Tail(keywords), searchable_text)

\* _should_include_event(event, filter_keywords, exclude_keywords); an
\* absent description or location is "", an absent list of keywords << >>
\* (the code treats None and the empty value alike).
should_include_event_FilterFirst(event, filter_keywords, exclude_keywords) ==
  LET searchable_text ==
        lower(event.title)
          \o (IF event.description # "" THEN " " \o lower(event.description) ELSE "")
          \o (IF event.location # "" THEN " " \o lower(event.location) ELSE "")
  IN  IF filter_keywords # << >>
        THEN first_match(filter_keywords, searchable_text)
      ELSE ~first_match(exclude_keywords, searchable_text)

should_include_event(event, filter_keywords, exclude_keywords) ==
  LET searchable_text ==
        lower(event.title)
          \o (IF event.description # "" THEN " " \o lower(event.description) ELSE "")
          \o (IF event.location # "" THEN " " \o lower(event.location) ELSE "")
  IN  IF exclude_keywords # << >> /\ first_match(exclude_keywords, searchable_text)
        THEN FALSE
      ELSE IF filter_keywords # << >>
        THEN first_match(filter_keywords, searchable_text)
      ELSE TRUE

\* The parsed events and keyword lists the filter is called with
Parsed ==
  { [ title |-> "Soccer Game", description |-> "", location |-> "" ],
    [ title |-> "Soccer Game", description |-> "Park entrance B",
      location |-> "" ],
    [ title |-> "Soccer Game", description |-> "", location |-> "Main Field" ],
    [ title |-> "Swim Practice", description |-> "Bring a towel",
      location |-> "Pool" ] }

KeywordLists ==
  { << >>, << "game" >>, << "GAME" >>, << "swim" >>, << "Field" >>,
    << "game park" >>, << "towel", "field" >> }

InitFilter ==
  /\ cb = CircuitBreaker(FailureThreshold, RecoveryTimeout, "Exception")
  /\ NoCallers
  /\ NoFetch
  /\ NoEvent
  /\ NoDedup
  /\ NoRequest
  /\ NoICal
  /\ NoInclusion
  /\ NoRegistry
  /\ NoOverlaps

\* self._should_include_event(event, filter_keywords, exclude_keywords)
ShouldIncludeEvent ==
  /\ inclusion = None
  /\ \E event \in Parsed, filter_keywords \in KeywordLists,
        exclude_keywords \in KeywordLists :
       inclusion' =
         [ event |-> event, filter_keywords |-> filter_keywords,
           exclude_keywords |-> exclude_keywords,
           included |-> should_include_event(event, filter_keywords,
                                             exclude_keywords) ]
  /\ UNCHANGED OutsideFilter

\* the next event of the calendar is parsed
DropInclusion ==
  /\ inclusion # None
  /\ inclusion' = None
  /\ UNCHANGED OutsideFilter

NextFilter ==
  \/ ShouldIncludeEvent
  \/ DropInclusion

SpecFilter == InitFilter /\ [][NextFilter]_vars

\* ------------------------------------------------- circuit breaker registry
\* timedelta(hours=1), in seconds
Hour == 3600

RegistryNames == {"A", "B"}

\* CircuitBreakerRegistry.get_or_create(name, failure_threshold)
get_or_create(registry, name, failure_threshold) ==
  IF name \notin DOMAIN registry
    THEN [ n \in DOMAIN registry \cup { name } |->
             IF n = name
               THEN CircuitBreaker(failure_threshold, RecoveryTimeout, "Exception")
               ELSE registry[n] ]
    ELSE registry

\* cleanup_inactive: a breaker counts as inactive when neither time is set or
\* the first that is set, the last success before the last failure, is
\* before the cutoff.
inactive_names(registry, max_age_hours, t) ==
  LET cutoff_time == t - max_age_hours * Hour
  IN  { name \in DOMAIN registry :
          LET breaker == registry[name]
              last_activity ==
                IF breaker.last_success_time # None
                  THEN breaker.last_success_time
                  ELSE breaker.last_failure_time
          IN  last_activity = None \/ last_activity[1] < cutoff_time }

\* CircuitBreakerRegistry.cleanup_inactive(max_age_hours) at clock t: the
\* registry afterwards and the number returned
cleanup_inactive(registry, max_age_hours, t) ==
  LET names == inactive_names(registry, max_age_hours, t)
  IN  [ breakers |-> [ n \in DOMAIN registry \ names |-> registry[n] ],
        returned |-> Cardinality(names) ]

InitRegistry ==
  /\ cb = CircuitBreaker(FailureThreshold, RecoveryTimeout, "Exception")
  /\ NoCallers
  /\ NoFetch
  /\ NoEvent
  /\ NoDedup
  /\ NoRequest
  /\ NoICal
  /\ NoInclusion
  /\ NoRegistry
  /\ NoOverlaps

\* registry.get_or_create(name, failure_threshold=...)
GetOrCreate ==
  /\ cleaned = None
  /\ \E name \in RegistryNames, failure_threshold \in Thresholds :
       breakers' = get_or_create(breakers, name, failure_threshold)
  /\ UNCHANGED << clock, cleaned, suspended >>
  /\ UNCHANGED OutsideRegistry

\* the requests the breakers of the registry have counted
RECURSIVE requests_counted(_)
requests_counted(registry) ==
  IF DOMAIN registry = { } THEN 0
  ELSE LET name == CHOOSE n \in DOMAIN registry : TRUE
       IN  registry[name].total_requests
             + requests_counted([ n \in DOMAIN registry \ { name } |-> registry[n] ])

\* await registry.get(name).call(func), up to `await func(...)`: the request
\* is counted and, unless the breaker refuses the call, the caller is
\* suspended in the wrapped operation.  The call holds the breaker object:
\* `attached` says whether that object is still the one in the registry.
RegistryCallEnter ==
  /\ cleaned = None
  /\ BagCardinality(suspended) < MaxCallers
  /\ requests_counted(breakers) < MaxRequests
  /\ \E name \in DOMAIN breakers :
       /\ LET r == call_enter(breakers[name], clock)
          IN  /\ breakers' = [ breakers EXCEPT ![name] = r.cb ]
              /\ suspended' =
                   IF r.invoke
                     THEN suspended (+) SetToBag({ [ name |-> name, attached |-> TRUE ] })
                     ELSE suspended
  /\ UNCHANGED << clock, cleaned >>
  /\ UNCHANGED OutsideRegistry

\* the wrapped operation of a suspended call returns, raises or is cancelled
\* and call() records it on the breaker object it holds (a cancellation is
\* no Exception and passes through unrecorded)
RegistryCallReturn ==
  /\ cleaned = None
  /\ \E call \in BagToSet(suspended), raised \in {"None", "ValueError", "CancelledError"} :
       /\ breakers' =
            IF call.attached
              THEN [ breakers EXCEPT ![call.name] = call_exit(@, clock, raised) ]
              ELSE breakers
       /\ suspended' = suspended (-) SetToBag({ call })
  /\ UNCHANGED << clock, cleaned >>
  /\ UNCHANGED OutsideRegistry

\* CircuitBreakerRegistry.reset_all
reset_all(registry) == [ name \in DOMAIN registry |-> reset(registry[name]) ]

\* registry.reset_all()
ResetAll ==
  /\ cleaned = None
  /\ \A name \in DOMAIN breakers : breakers[name].state_changes < MaxChanges
  /\ breakers' = reset_all(breakers)
  /\ UNCHANGED << clock, cleaned, suspended >>
  /\ UNCHANGED OutsideRegistry

\* registry.get(name).reset()
RegistryReset ==
  /\ cleaned = None
  /\ \E name \in DOMAIN breakers :
       /\ breakers[name].state_changes < MaxChanges
       /\ breakers' = [ breakers EXCEPT ![name] = reset(@) ]
  /\ UNCHANGED << clock, cleaned, suspended >>
  /\ UNCHANGED OutsideRegistry

\* an hour passes
RegistryTick ==
  /\ cleaned = None
  /\ clock < MaxHours * Hour
  /\ clock' = clock + Hour
  /\ UNCHANGED << breakers, cleaned, suspended >>
  /\ UNCHANGED OutsideRegistry

\* the suspended calls after the breakers of `names` left the registry: each
\* such call keeps its breaker object, which is no longer the registered one
detach(calls, names) ==
  LET after(call) == IF call.name \in names THEN [ call EXCEPT !.attached = FALSE ]
                     ELSE call
      targets == { after(call) : call \in BagToSet(calls) }
  IN  [ target \in targets |->
          LET origins == { call \in BagToSet(calls) : after(call) = target }
              RECURSIVE total(_)
              total(rest) == IF rest = { } THEN 0
                             ELSE LET call == CHOOSE x \in rest : TRUE
                                  IN  calls[call] + total(rest \ { call })
          IN  total(origins) ]

\* registry.cleanup_inactive(max_age_hours); a call that is suspended on a
\* breaker that is removed keeps the object, which is no longer registered
CleanupInactive ==
  /\ cleaned = None
  /\ \E max_age_hours \in 1..MaxHours :
       LET r == cleanup_inactive(breakers, max_age_hours, clock)
       IN  /\ breakers' = r.breakers
           /\ cleaned' = [ max_age_hours |-> max_age_hours, before |-> breakers,
                           returned |-> r.returned ]
           /\ suspended' = detach(suspended, DOMAIN breakers \ DOMAIN r.breakers)
  /\ UNCHANGED clock
  /\ UNCHANGED OutsideRegistry

\* the caller drops the number cleanup_inactive returned
DropCleaned ==
  /\ cleaned # None
  /\ cleaned' = None
  /\ UNCHANGED << breakers, clock, suspended >>
  /\ UNCHANGED OutsideRegistry

NextRegistry ==
  \/ GetOrCreate
  \/ RegistryCallEnter
  \/ RegistryCallReturn
  \/ RegistryReset
  \/ ResetAll
  \/ RegistryTick
  \/ CleanupInactive
  \/ DropCleaned

SpecRegistry == InitRegistry /\ [][NextRegistry]_vars

\* ------------------------------------------------ overlapping events
\* sorted(events, key=lambda e: e.start_time): stable
RECURSIVE sorted_by_start(_)
sorted_by_start(events) ==
  IF events = << >> THEN << >>
  ELSE LET x == events[Len(events)]
           rest == sorted_by_start(SubSeq(events, 1, Len(events) - 1))
       IN  SelectSeq(rest, LAMBDA y : y.start_time <= x.start_time)
             \o << x >>
             \o SelectSeq(rest, LAMBDA y : y.start_time > x.start_time)

\* the inner loop of detect_overlapping_events with `break` where the code
\* has `continue`: the sweep for event1 stops at an event of its own source
RECURSIVE overlaps_with_StopAtSameSource(_, _, _, _)
overlaps_with_StopAtSameSource(event1, later, overlap_threshold_minutes, pairs) ==
  IF later = << >> THEN pairs
  ELSE LET event2 == Head(later)
           overlap_start == Max(event1.start_time, event2.start_time)
           overlap_end == Min(event1.end_time, event2.end_time)
           overlap_duration == overlap_end - overlap_start
       IN  IF event2.start_time >= event1.end_time THEN pairs
           ELSE IF event1.source_name = event2.source_name THEN pairs
           ELSE overlaps_with_StopAtSameSource(
                  event1, Tail(later), overlap_threshold_minutes,
                  IF overlap_duration >= overlap_threshold_minutes
                    THEN Append(pairs, << event1.id, event2.id >>)
                    ELSE pairs)

\* the inner loop of detect_overlapping_events: event1 against the events
\* after it in start order; times are in minutes
RECURSIVE overlaps_with(_, _, _, _)
overlaps_with(event1, later, overlap_threshold_minutes, pairs) ==
  IF later = << >> THEN pairs
  ELSE LET event2 == Head(later)
           overlap_start == Max(event1.start_time, event2.start_time)
           overlap_end == Min(event1.end_time, event2.end_time)
           overlap_duration == overlap_end - overlap_start
       IN  IF event2.start_time >= event1.end_time THEN pairs
           ELSE IF event1.source_name = event2.source_name
             THEN overlaps_with(event1, Tail(later), overlap_threshold_minutes, pairs)
           ELSE overlaps_with(
                  event1, Tail(later), overlap_threshold_minutes,
                  IF overlap_duration >= overlap_threshold_minutes
                    THEN Append(pairs, << event1.id, event2.id >>)
                    ELSE pairs)

\* the outer loop, from position i of sorted_events
RECURSIVE overlaps_from(_, _, _, _)
overlaps_from(sorted_events, i, overlap_threshold_minutes, pairs) ==
  IF i > Len(sorted_events) THEN pairs
  ELSE overlaps_from(sorted_events, i + 1, overlap_threshold_minutes,
                     overlaps_with(sorted_events[i],
                                   SubSeq(sorted_events, i + 1, Len(sorted_events)),
                                   overlap_threshold_minutes, pairs))

\* detect_overlapping_events(events, overlap_threshold_minutes): the pairs,
\* each the ids of its two events
detect_overlapping_events(events, overlap_threshold_minutes) ==
  overlaps_from(sorted_by_start(events), 1, overlap_threshold_minutes, << >>)

\* The events of the calls: a source, a start and an end on a grid of a
\* quarter of an hour, the end after the start; the id of an event is its
\* position in the list handed over.
Quarter == 15

Slots ==
  { slot \in { [ source_name |-> s, start_time |-> Quarter * a,
                 end_time |-> Quarter * b ] :
                 s \in {"A", "B"}, a \in 0..2, b \in 1..3 } :
      slot.start_time < slot.end_time }

Timed(slots) ==
  [ i \in DOMAIN slots |->
      [ id |-> i, source_name |-> slots[i].source_name,
        start_time |-> slots[i].start_time, end_time |-> slots[i].end_time ] ]

\* overlap_threshold_minutes: none, the default, half an hour
OverlapThresholds == { 0, Quarter, 2 * Quarter }

InitOverlaps ==
  /\ cb = CircuitBreaker(FailureThreshold, RecoveryTimeout, "Exception")
  /\ NoCallers
  /\ NoFetch
  /\ NoEvent
  /\ NoDedup
  /\ NoRequest
  /\ NoICal
  /\ NoInclusion
  /\ NoRegistry
  /\ NoOverlaps

\* await processor.detect_overlapping_events(events, overlap_threshold_minutes)
DetectOverlappingEvents ==
  /\ overlaps = None
  /\ \E k \in 0..MaxOverlapping :
       \E slots \in [1..k -> Slots],
          overlap_threshold_minutes \in OverlapThresholds :
         overlaps' =
           [ events |-> Timed(slots),
             overlap_threshold_minutes |-> overlap_threshold_minutes,
             pairs |-> detect_overlapping_events(Timed(slots),
                                                 overlap_threshold_minutes) ]
  /\ UNCHANGED OutsideOverlaps

\* the caller drops the pairs
DropOverlaps ==
  /\ overlaps # None
  /\ overlaps' = None
  /\ UNCHANGED OutsideOverlaps

NextOverlaps ==
  \/ DetectOverlappingEvents
  \/ DropOverlaps

SpecOverlaps == InitOverlaps /\ [][NextOverlaps]_vars

\* ------------------------------------------------------ circuit breaker claims
\* The breaker state in which caller c's operation was invoked (call() moves
\* an open breaker to half-open before it invokes the operation).
AdmittedIn(c) == IF entry[c] = OPEN THEN HALF_OPEN ELSE entry[c]

\* This step is a call() beginning (the only step that counts a request).
EnterStep == cb'.total_requests = cb.total_requests + 1
\* This step is the wrapped operation of c returning or raising.
ReturnStep(c) == pc[c] = "running" /\ pc'[c] = "idle"
\* The recovery timeout has elapsed since the last recorded failure.
Elapsed == cb.last_failure_time # None
           /\ now - cb.last_failure_time[1] >= cb.recovery_timeout
Failed(x) == x # "None" /\ IsInstance(x, cb.expected_exception)
Unexpected(x) == x # "None" /\ ~IsInstance(x, cb.expected_exception)
\* Caller c is the only one that has ever used the breaker.
Alone(c) == \A d \in Callers \ {c} : outcome[d] = "never"

\* C1: with threshold N, each failing call on a closed breaker adds one to the
\* failure count and the N-th in a row opens it (a closed breaker always has
\* fewer than N counted failures); a call that arrives while the breaker is
\* open and the recovery timeout has not elapsed raises CircuitBreakerError
\* and no wrapped operation is invoked.
C1_OpensAfterThreshold ==
  /\ [](cb.state = CLOSED => cb.failure_count < cb.failure_threshold)
  /\ [][ /\ \A c \in Callers :
              (ReturnStep(c) /\ Failed(outcome'[c]) /\ cb.state = CLOSED) =>
                 /\ cb'.failure_count = cb.failure_count + 1
                 /\ cb'.state = IF cb.failure_count + 1 >= cb.failure_threshold
                                THEN OPEN ELSE CLOSED
         /\ (EnterStep /\ cb.state = OPEN /\ ~Elapsed) =>
              /\ pc' = pc
              /\ cb'.state = OPEN
              /\ \E c \in Callers :
                   /\ pc[c] = "idle"
                   /\ outcome'[c] = "CircuitBreakerError"
                   /\ \A d \in Callers \ {c} : outcome'[d] = outcome[d]
       ]_vars

\* Two failures in a row opened a breaker of threshold 2, and the third call
\* was rejected.
C1_Witness ==
  /\ cb.failure_threshold = 2
  /\ cb.state = OPEN
  /\ cb.failure_count = 2
  /\ cb.total_failures = 2
  /\ cb.total_successes = 0
  /\ cb.total_requests = 3
  /\ \E c \in Callers : outcome[c] = "CircuitBreakerError"

\* C2: while the breaker is open, a call made less than recovery_timeout
\* seconds after the last recorded failure is rejected with
\* CircuitBreakerError, no operation is invoked and the breaker stays open;
\* a call made at or after recovery_timeout seconds moves the breaker to
\* half-open and its wrapped operation is invoked.
C2_OpenUntilTimeout ==
  [][ (EnterStep /\ cb.state = OPEN) =>
        IF Elapsed
        THEN /\ cb'.state = HALF_OPEN
             /\ \E c \in Callers :
                  /\ pc[c] = "idle" /\ pc'[c] = "running"
                  /\ outcome'[c] = "pending"
        ELSE /\ cb'.state = OPEN
             /\ pc' = pc
             /\ \E c \in Callers :
                  /\ pc[c] = "idle"
                  /\ outcome'[c] = "CircuitBreakerError"
                  /\ \A d \in Callers \ {c} : outcome'[d] = outcome[d]
    ]_vars

\* A call was admitted from open exactly recovery_timeout (2) seconds after
\* the last failure, after an earlier call had been rejected.
C2_Witness ==
  /\ cb.recovery_timeout = 2
  /\ cb.state = HALF_OPEN
  /\ cb.last_failure_time # None
  /\ now - cb.last_failure_time[1] = 2
  /\ \E c \in Callers : pc[c] = "running" /\ entry[c] = OPEN
  /\ \E c \in Callers : outcome[c] = "CircuitBreakerError"

\* C3: when the call admitted in half-open returns, the breaker is closed
\* with failure count 0; when it fails with the expected exception, the
\* breaker is open and the last failure time is the time of that failure.
C3_TrialDecides ==
  [][ \A c \in Callers :
        (ReturnStep(c) /\ AdmittedIn(c) = HALF_OPEN) =>
           /\ outcome'[c] = "None" =>
                (cb'.state = CLOSED /\ cb'.failure_count = 0)
           /\ Failed(outcome'[c]) =>
                (cb'.state = OPEN /\ cb'.last_failure_time = At(now))
    ]_vars

\* C4: while the breaker is half-open, at most one wrapped operation that
\* was let through in half-open is in flight.
C4_OneTrialCall ==
  cb.state = HALF_OPEN =>
    Cardinality({ c \in Callers : pc[c] = "running" /\ AdmittedIn(c) = HALF_OPEN }) <= 1

\* C5 as claimed, for the state: after a call whose wrapped operation raised
\* an exception that is not an instance of expected_exception, the breaker is
\* in the state it was in before the call (stated for a caller that has the
\* breaker to itself, so that no other call can have changed it).
C5_SameAsBeforeCall ==
  [][ \A c \in Callers :
        (ReturnStep(c) /\ Unexpected(outcome'[c]) /\ Alone(c)) =>
           cb'.state = entry[c]
    ]_vars

\* C5 as amended: the exception reaches the caller and handling it changes
\* nothing of the breaker. Against the time before the call, failure count,
\* last-failure time and cumulative failures are the same (the admission of a
\* call changes none of them), and the state is the same except that the
\* admission of a call on an open breaker has moved it to half-open.  The
\* two steps of a call are stated one by one: what another caller or a
\* reset() does between them is not the call's doing.
C5_UnexpectedLeavesBreaker ==
  [][ /\ \A c \in Callers :
           (ReturnStep(c) /\ Unexpected(outcome'[c])) =>
              /\ outcome'[c] \in Raisable \ {"None"}
              /\ cb' = cb
      /\ EnterStep =>
           /\ cb'.failure_count = cb.failure_count
           /\ cb'.last_failure_time = cb.last_failure_time
           /\ cb'.total_failures = cb.total_failures
           /\ cb'.state = IF cb.state = OPEN /\ Elapsed THEN HALF_OPEN ELSE cb.state
    ]_vars

\* An unexpected ValueError came out of a call that was admitted from open:
\* the breaker is left half-open.
C5_Witness ==
  \E c \in Callers :
    /\ Alone(c)
    /\ outcome[c] = "ValueError"
    /\ cb.expected_exception = "CalendarFetchError"
    /\ entry[c] = OPEN
    /\ cb.state = HALF_OPEN
    /\ cb.failure_count >= 1

\* ---------------------------------------------------- fetch coordinator claims
\* The response r is a calendar document that is accepted and parsed.
Succeeds(r) ==
  /\ r.exc = "None" /\ r.status = 200
  /\ is_valid_calendar_content(r.body) /\ Body[r.body].parses
\* The response r is a timeout, a transport error, a 401, a server error,
\* invalid content or a document that does not parse.
Fails(r) ==
  \/ r.exc # "None"
  \/ r.status \in {401, 500}
  \/ r.status = 200 /\ ~(is_valid_calendar_content(r.body) /\ Body[r.body].parses)

\* C6: fetch_multiple_calendars returns, whatever each source did, one entry
\* per source name: (its events, no error) for a source that answered with a
\* calendar, (no events, its error) for a source that failed, each decided by
\* that source's own response alone; and while tasks are left the call can
\* always go on.
C6_FailuresIsolated ==
  /\ main_pc = "gathering" =>
       ENABLED (GatherDone \/ \E s \in SourceNames : TaskStart(s) \/ Respond(s))
  /\ main_pc = "returned" =>
       /\ DOMAIN result_dict = sources
       /\ \A s \in sources :
            LET r == task[s].response
            IN  /\ Succeeds(r) => result_dict[s] = << Body[r.body].events, "None" >>
                /\ Fails(r) => /\ result_dict[s][1] = << >>
                               /\ result_dict[s][2] # "None"
                               /\ IsInstance(result_dict[s][2], "Exception")

\* Source A timed out and source B answered with two events: both are in
\* the result, A with its error and B with its events.
C6_Witness ==
  /\ main_pc = "returned"
  /\ sources = {"A", "B"}
  /\ task["A"].response = Raises("TimeoutException")
  /\ task["B"].response = Answers(200, "cal2")
  /\ result_dict["A"] = << << >>, "TimeoutError" >>
  /\ result_dict["B"] = << << "e1", "e2" >>, "None" >>

\* C7: a fetch that ends on a request that timed out or failed in the
\* transport has made all of its 3 request attempts.
C7_RetriedToCap ==
  \A s \in SourceNames :
    (task[s].pc = "done"
       /\ task[s].response.exc \in {"TimeoutException", "ConnectError"})
      => task[s].attempts = StopAfterAttempt

\* C8: once the last failure_threshold (5) fetches of a source have all
\* failed, its next fetch sends no request and ends with the breaker-open error.
C8_BreakerGuardsFetch ==
  \A s \in SourceNames :
    failed_fetches[s] >= FailureThreshold =>
      /\ task[s].attempts = 0
      /\ task[s].pc = "done" => task[s].error = "CircuitBreakerError"

\* C9: a source that gave a non-empty event list before and now answers
\* 304 Not Modified is reported with that event list.
C9_NotModifiedKeepsEvents ==
  main_pc = "returned" =>
    \A s \in sources :
      (task[s].response.status = 304 /\ earlier_events[s] # << >>) =>
         /\ s \in DOMAIN result_dict
         /\ result_dict[s] = << earlier_events[s], "None" >>

\* C10: a 401 response ends the fetch with AuthenticationError, and a 200
\* response whose body lacks BEGIN:VCALENDAR or END:VCALENDAR ends it with
\* ParsingError.
C10_OwnErrorClass ==
  \A s \in SourceNames :
    task[s].pc = "done" =>
      LET r == task[s].response
      IN  /\ (r.exc = "None" /\ r.status = 401) =>
               task[s].error = "AuthenticationError"
          /\ (r.exc = "None" /\ r.status = 200
                /\ ~(Body[r.body].begin /\ Body[r.body].end)) =>
               task[s].error = "ParsingError"

\* ------------------------------------------------------------------ C11
\* The sources whose fetch-and-parse is in progress.
InProgress == {s \in SourceNames : task[s].pc = "requesting"}

Waiting == {s \in SourceNames : task[s].pc = "waiting"}

\* the sources whose task was handed a slot by release() and has not run since
HandedOver == { waiters[i].source : i \in { j \in DOMAIN waiters : waiters[j].done } }

\* C11: while fetch_multiple_calendars runs, the number of sources whose
\* fetch-and-parse is in progress never exceeds concurrency_limit, however
\* many sources there are: every slot of the semaphore is free, held by a
\* task in progress or handed over to a suspended task.  A waiting task can
\* always still be served (a slot is free, a slot was handed to a waiting
\* task, or a task in progress will free one); and when the call has
\* returned, the task of every source was started and has finished.
C11_AtMostLimitInProgress ==
  /\ Cardinality(InProgress) <= concurrency_limit
  /\ main_pc = "gathering" =>
        /\ semaphore >= 0
        /\ semaphore + Cardinality(InProgress) + Cardinality(HandedOver)
             = concurrency_limit
        /\ HandedOver \subseteq Waiting
  /\ main_pc = "gathering" /\ Waiting # {} =>
        semaphore > 0 \/ HandedOver # {} \/ InProgress # {}
  /\ main_pc = "returned" =>
        \A s \in sources : task[s].pc = "done" /\ task[s].attempts >= 1

\* More sources than slots: one is in progress, the other is suspended in
\* acquire().
C11_Witness ==
  /\ Cardinality(sources) > concurrency_limit
  /\ Cardinality(InProgress) = concurrency_limit
  /\ \E i \in DOMAIN waiters : ~waiters[i].done

\* ------------------------------------------------------------------ C12
\* C12: every Event has end_time > start_time at all times: a construction
\* with end <= start is rejected, and no later operation (assigning
\* start_time or end_time, merging overlapping events) leaves an Event with
\* end <= start.
C12_EndAfterStart ==
  \A h \in Holders :
    held[h] # None => held[h].end_time > held[h].start_time

\* ------------------------------------------------------------ C13 - C15
Ids(events) == { events[i].id : i \in DOMAIN events }

NewIds == { request.new_events[i] : i \in DOMAIN request.new_events }

\* process_events was called and returned
Completed == request # None /\ process_results.raised = "None"

\* the ids of results["processed_events"] and results["duplicate_events"]
Survivors == Ids(process_results.processed_events)
Discarded == Ids(process_results.duplicate_events)

\* what find_duplicates reported to process_events, if it was asked
Reported ==
  IF wants_duplicates(request.flags.detect_duplicates, request.existing_events)
  THEN find_duplicates(dedup, Events(request.new_events),
                       Events(request.existing_events))
  ELSE << >>

\* what find_duplicates says of the new events alone
AmongNew == find_duplicates(dedup, Events(request.new_events), << >>)

\* C13: of two new events of one run that find_duplicates reports as
\* duplicates of each other, exactly one is discarded and the other is in
\* processed_events; never are both discarded.
C13_OneOfAPairSurvives ==
  Completed /\ Reported # << >> =>
    \A a \in NewIds, b \in NewIds :
      (a # b /\ Reported[a].canonical_event = b /\ Reported[b].canonical_event = a)
        => \/ a \in Discarded /\ b \in Survivors
           \/ b \in Discarded /\ a \in Survivors

\* C14: with duplicate detection enabled and existing_events None or empty,
\* process_events still deduplicates the new events against each other: a
\* new event and the new event it duplicates are not both kept.
C14_DeduplicatesWithoutExisting ==
  (Completed /\ request.flags.detect_duplicates
     /\ request.existing_events = << >>) =>
    \A a \in NewIds, b \in NewIds :
      (a # b /\ AmongNew[a].canonical_event = b)
        => ~(a \in Survivors /\ b \in Survivors)

\* a record that carries what merge_duplicate_events takes from `duplicate`
Carries(record, duplicate) ==
  /\ duplicate.description # << >> =>
       contains(record.description, duplicate.description)
  /\ Len(record.location) >= Len(duplicate.location)
  /\ duplicate.tags \subseteq record.tags

\* C15: after process_events, for every discarded duplicate the result holds
\* a surviving record of its canonical event that carries the merge
\* (description, the longer location, the tags), whichever and however many
\* duplicates the canonical event has.
C15_MergeIsKept ==
  Completed =>
    \A i \in DOMAIN process_results.duplicate_events :
      LET duplicate == process_results.duplicate_events[i]
      IN  \E j \in DOMAIN process_results.processed_events :
            /\ process_results.processed_events[j].id = duplicate.duplicate_of
            /\ Carries(process_results.processed_events[j], duplicate)

\* ------------------------------------------------------------------ C16
FoundIds ==
  { found.events[i] : i \in DOMAIN found.events }
  \cup { found.existing_events[i] : i \in DOMAIN found.existing_events }

DefaultsButTolerance(d) ==
  /\ d.weights = DefaultWeights
  /\ d.weight_unit = WeightUnit
  /\ d.duplicate_threshold = DuplicateThreshold

\* b is a, from another source and 5 minutes apart
ShiftedCopy(a, b) ==
  /\ a.source_name # b.source_name
  /\ Abs(a.start_time - b.start_time) = 5
  /\ a.end_time - a.start_time = b.end_time - b.start_time
  /\ \A f \in {"title", "location", "description", "event_type", "tags",
                 "utcoffset", "color"} : a[f] = b[f]

\* C16: find_duplicates never reports an event as the duplicate of a canonical
\* event whose start is further from its own than the time tolerance; and
\* with the default weights and threshold and a tolerance of 10 minutes, an
\* event is reported as a duplicate when the call holds the same event of
\* another source 5 minutes apart.
C16_WithinToleranceOnly ==
  found # None =>
    /\ \A id \in DOMAIN found.results :
         found.results[id].is_duplicate =>
           /\ found.results[id].canonical_event \in FoundIds
           /\ Abs(Catalogue[found.results[id].canonical_event].start_time
                  - Catalogue[id].start_time) <= dedup.time_tolerance
    /\ (DefaultsButTolerance(dedup) /\ dedup.time_tolerance = 10) =>
         \A a \in DOMAIN found.results, b \in FoundIds :
           ShiftedCopy(Catalogue[a], Catalogue[b]) => found.results[a].is_duplicate

\* Tolerance 10: e2 is reported as a duplicate of e1, 5 minutes before it,
\* and e6, the same event 40 minutes after e1, is not reported.
C16_Witness ==
  /\ found # None
  /\ DefaultsButTolerance(dedup) /\ dedup.time_tolerance = 10
  /\ {"e1", "e2", "e6"} \subseteq DOMAIN found.results
  /\ found.results["e2"].is_duplicate
  /\ found.results["e2"].canonical_event = "e1"
  /\ ~found.results["e6"].is_duplicate

\* ------------------------------------------------------------------ C17
StoredTotal ==
  dedup.weights.title + dedup.weights.time + dedup.weights.location
  + dedup.weights.description

\* C17: after construction with any caller-supplied weights the four stored
\* weights sum to 1.0.
C17_WeightsSumToOne ==
  dedup # None => StoredTotal = dedup.weight_unit

\* ------------------------------------------------------------------ C18
\* C18: with formatting and color assignment enabled process_events raises
\* nothing, whether or not a sport keyword or a team name is detected in an
\* event, and every event of processed_events has a color.
C18_NeverRaisesAndColors ==
  (request # None /\ request.flags.apply_formatting /\ request.flags.apply_colors) =>
    /\ process_results.raised = "None"
    /\ \A i \in DOMAIN process_results.processed_events :
         process_results.processed_events[i].color # ""

\* ------------------------------------------------------------ C19 - C20
\* the events of the last generate_calendar call
EncodedEvents == [ i \in DOMAIN encoded.events |-> Encodable[encoded.events[i]] ]

\* C19: for every non-empty list of well-formed events, validate_calendar
\* applied to the text generate_calendar returned gives (True, []): valid,
\* with an empty list of errors.
C19_RoundTripValidates ==
  (encoded # None /\ validation # None /\ encoded.events # << >>)
    => validation = [ is_valid |-> TRUE, errors |-> << >> ]

\* the zones other than UTC that the starts and ends of the events name,
\* and the default zone
ReferencedZones ==
  { EncodedEvents[i].start_time.tz : i \in DOMAIN EncodedEvents }
    \cup { EncodedEvents[i].end_time.tz : i \in DOMAIN EncodedEvents }
    \cup { generator.timezone_name }

\* C20: the calendar generated with include_timezone has a timezone block
\* for every zone other than UTC that the start or the end of an encoded
\* event refers to, and for the default zone (where the blocks can be built).
C20_BlockPerReferencedZone ==
  (encoded # None /\ encoded.include_timezone /\ encoded.accepted
     /\ encoded.events # << >>)
    => \A tz \in ReferencedZones \ { "UTC" } :
         Occurs("BEGIN:VTIMEZONE\r\nTZID:" \o tz \o "\r\n", calendar_text)

\* ------------------------------------------------------------------ C21
\* The VEVENT components of the generated text, in the order they were written
EncodedComponents ==
  LET components == walk(from_ical(calendar_text))
  IN  [ k \in 1..Cardinality({ i \in DOMAIN components : components[i].name = "VEVENT" }) |->
        components[CHOOSE i \in DOMAIN components :
                     /\ components[i].name = "VEVENT"
                     /\ Cardinality({ j \in 1..i : components[j].name = "VEVENT" }) = k] ]

\* C21: the STATUS written for each encoded event is that event's own status:
\* confirmed gives CONFIRMED, tentative TENTATIVE, cancelled CANCELLED.
C21_StatusOfTheEvent ==
  encoded # None =>
    /\ Len(EncodedComponents) = Len(encoded.events)
    /\ \A i \in DOMAIN encoded.events :
         get(EncodedComponents[i], "STATUS").value =
           [ confirmed |-> "CONFIRMED", tentative |-> "TENTATIVE",
             cancelled |-> "CANCELLED" ][EncodedEvents[i].status]

\* ------------------------------------------------------------------ C22
\* keyword occurs, whatever the case, in one of the three fields
InAField(keyword, event) ==
  \E field \in { event.title, event.description, event.location } :
    Occurs(lower(keyword), lower(field))

\* the title, then the description and the location that are present, each
\* after a single space
JoinedText(event) ==
  event.title
    \o (IF event.description = "" THEN "" ELSE " " \o event.description)
    \o (IF event.location = "" THEN "" ELSE " " \o event.location)

InTheText(keyword, event) == Occurs(lower(keyword), lower(JoinedText(event)))

Range(list) == { list[i] : i \in DOMAIN list }

\* C22 as stated: an event is dropped whenever an exclude keyword occurs in
\* its title, description or location; otherwise, with a non-empty include
\* list, it is kept exactly when an include keyword occurs in one of them;
\* otherwise it is kept.
C22_KeywordsInAField ==
  inclusion # None =>
    inclusion.included =
      (IF \E k \in Range(inclusion.exclude_keywords) : InAField(k, inclusion.event)
         THEN FALSE
       ELSE IF inclusion.filter_keywords # << >>
         THEN \E k \in Range(inclusion.filter_keywords) : InAField(k, inclusion.event)
       ELSE TRUE)

\* C22 as amended: the same decision, with a keyword looked for in the text
\* made of the title, the description and the location joined by spaces.
C22_KeywordsInTheText ==
  inclusion # None =>
    inclusion.included =
      (IF \E k \in Range(inclusion.exclude_keywords) : InTheText(k, inclusion.event)
         THEN FALSE
       ELSE IF inclusion.filter_keywords # << >>
         THEN \E k \in Range(inclusion.filter_keywords) : InTheText(k, inclusion.event)
       ELSE TRUE)

\* an include keyword and an exclude keyword both occur: the event is dropped
C22_Witness ==
  /\ inclusion # None
  /\ \E k \in Range(inclusion.exclude_keywords) : InAField(k, inclusion.event)
  /\ \E k \in Range(inclusion.filter_keywords) : InAField(k, inclusion.event)
  /\ ~inclusion.included

\* ------------------------------------------------------------------ C23
\* the events of the last find_duplicates call, existing ones first
AllFound == Events(found.existing_events) \o Events(found.events)

\* the composite score of two events under the deduplicator
Score(event, other) ==
  calculate_overall_confidence(dedup, calculate_similarity_factors(dedup, event, other))

\* C23: with a tolerance of at most 24 hours, every other event whose start
\* instant is within the tolerance of a new event's start instant is scored
\* as a candidate for it (the best score found is at least its score),
\* whatever UTC offset the two starts are expressed in.
C23_ScoredWhateverTheOffset ==
  (found # None /\ dedup.time_tolerance <= DayMinutes) =>
    \A i \in DOMAIN found.events, j \in DOMAIN AllFound :
      LET event == Catalogue[found.events[i]]
          other == AllFound[j]
      IN  (/\ other.id # event.id
           /\ Abs(other.start_time - event.start_time) <= dedup.time_tolerance)
            => found.results[event.id].confidence >= Score(event, other)

\* ------------------------------------------------------------------ C24
\* the candidates find_duplicates scores for a new event: its potential
\* duplicates other than itself
CandidatesOf(event) ==
  LET potential_duplicates ==
        find_potential_duplicates(dedup, event, create_time_buckets(AllFound),
                                  Events(found.existing_events))
  IN  { potential_duplicates[i] : i \in DOMAIN potential_duplicates } \ { event }

ExistingIds == { found.existing_events[i] : i \in DOMAIN found.existing_events }

\* the score of each candidate of a new event
ScoresOf(event) ==
  LET candidates == CandidatesOf(event)
  IN  [ id \in { c.id : c \in candidates } |-> Score(event, Catalogue[id]) ]

\* the highest of these scores, 0.0 without a candidate
Highest(scores) ==
  LET values == { scores[id] : id \in DOMAIN scores } \cup { 0 }
  IN  CHOOSE s \in values : \A t \in values : t <= s

\* what C24 says of the result for a new event, given its candidates' scores
BestOfScores(result, scores, highest) ==
  LET best == { id \in DOMAIN scores : scores[id] = highest }
  IN  /\ result.confidence = highest
      /\ result.is_duplicate
           = (highest >= dedup.duplicate_threshold * dedup.weight_unit * TimeOne(dedup))
      /\ result.is_duplicate =>
           /\ result.canonical_event \in best
           /\ (best \cap ExistingIds # { }) => result.canonical_event \in ExistingIds
      /\ ~result.is_duplicate => result.canonical_event = "None"

\* C24: for each new event the match is a candidate with the highest
\* composite score; the event is reported duplicate exactly when that score
\* is at least duplicate_threshold; when an existing and a new event tie for
\* the highest score the canonical event reported is the existing one.
C24_BestMatchExistingFirst ==
  found # None =>
    \A i \in DOMAIN found.events :
      LET scores == ScoresOf(Events(found.events)[i])
      IN  BestOfScores(found.results[found.events[i]], scores, Highest(scores))

\* an existing event and a new one tie for the highest score of a duplicate
C24_Witness ==
  /\ found # None
  /\ \E i \in DOMAIN found.events :
       LET scores == ScoresOf(Events(found.events)[i])
           best == { id \in DOMAIN scores : scores[id] = Highest(scores) }
       IN  /\ found.results[found.events[i]].is_duplicate
           /\ best \cap ExistingIds # { }
           /\ best \ ExistingIds # { }
           /\ found.results[found.events[i]].canonical_event \in ExistingIds

\* ------------------------------------------------------------------ C25
\* the later of the last success and the last failure of a breaker, None
\* when it recorded neither
MostRecentActivity(breaker) ==
  LET times == { breaker[f][1] : f \in { g \in {"last_success_time", "last_failure_time"} :
                                            breaker[g] # None } }
  IN  IF times = { } THEN None
      ELSE At(CHOOSE t \in times : \A u \in times : u <= t)

\* C25: cleanup_inactive(max_age_hours) evicts exactly the breakers whose most
\* recent activity is older than max_age_hours or that recorded none; so a
\* breaker that recorded a failure within the last max_age_hours stays.
C25_EvictsExactlyTheInactive ==
  cleaned # None =>
    LET cutoff_time == clock - cleaned.max_age_hours * Hour
        evicted == DOMAIN cleaned.before \ DOMAIN breakers
    IN  /\ evicted =
             { name \in DOMAIN cleaned.before :
                 LET last == MostRecentActivity(cleaned.before[name])
                 IN  last = None \/ last[1] < cutoff_time }
        /\ cleaned.returned = Cardinality(evicted)
        /\ \A name \in DOMAIN breakers : breakers[name] = cleaned.before[name]

\* ------------------------------------------------------------------ C26
\* C26: for a zone whose DST flag changes during the year, every change is
\* reported by _get_dst_transitions, the one to daylight time and the one
\* back, and the zone's block in the text holds one DAYLIGHT and one
\* STANDARD sub-block.
C26_EveryChangeReported ==
  (/\ encoded # None /\ encoded.events # << >>
   /\ encoded.include_timezone /\ encoded.accepted
   /\ generator.timezone_name # "UTC") =>
    LET tz_info == zone(generator.timezone_name)
        transitions == get_dst_transitions(tz_info, CurrentYear)
    IN  tz_info.daylight # None =>
          /\ \A is_dst \in BOOLEAN :
               Cardinality({ i \in DOMAIN transitions :
                               transitions[i].is_dst = is_dst }) = 1
          /\ Occurs("BEGIN:DAYLIGHT\r\n", calendar_text)
          /\ Occurs("BEGIN:STANDARD\r\n", calendar_text)

\* ------------------------------------------------------------------ C27
\* the time two events have in common, in minutes
TimeOverlap(event1, event2) ==
  Max(0, Min(event1.end_time, event2.end_time)
           - Max(event1.start_time, event2.start_time))

\* the pairs of events of different sources that overlap by the threshold
Conflicting ==
  { pair \in SUBSET (DOMAIN overlaps.events) :
      /\ Cardinality(pair) = 2
      /\ \A i, j \in pair :
           i # j =>
             /\ overlaps.events[i].source_name # overlaps.events[j].source_name
             /\ TimeOverlap(overlaps.events[i], overlaps.events[j])
                  >= overlaps.overlap_threshold_minutes }

\* the pairs returned, each once
ReturnedOnce ==
  /\ { { overlaps.pairs[k][1], overlaps.pairs[k][2] } : k \in DOMAIN overlaps.pairs }
       = Conflicting
  /\ Len(overlaps.pairs) = Cardinality(Conflicting)

\* C27 as stated: detect_overlapping_events returns exactly the pairs of
\* events of different sources whose time overlap is at least
\* overlap_threshold_minutes.
C27_ExactlyTheConflicts ==
  overlaps # None => ReturnedOnce

\* C27 as amended: the same, for a threshold greater than 0.
C27_ExactlyTheConflictsAbove0 ==
  (overlaps # None /\ overlaps.overlap_threshold_minutes > 0) => ReturnedOnce

\* a pair is returned although the sweep passed an event of the first one's
\* own source on the way, and another pair of sources is skipped
C27_Witness ==
  /\ overlaps # None
  /\ overlaps.overlap_threshold_minutes > 0
  /\ Len(overlaps.events) = 3
  /\ overlaps.events[2].source_name = overlaps.events[1].source_name
  /\ overlaps.events[1].start_time < overlaps.events[2].start_time
  /\ overlaps.events[2].start_time < overlaps.events[3].start_time
  /\ TimeOverlap(overlaps.events[1], overlaps.events[2]) > 0
  /\ overlaps.pairs = << << 1, 3 >>, << 2, 3 >> >>

\* ------------------------------------------------------------------ C28
\* C28: the return of a call moves the breaker from half-open to closed only
\* when that call was admitted while it was half-open and returns
\* successfully; the late success of a call admitted while it was closed does
\* not close it.
C28_OnlyATrialCloses ==
  [][ \A c \in Callers :
        (ReturnStep(c) /\ cb.state = HALF_OPEN /\ cb'.state = CLOSED) =>
          /\ outcome'[c] = "None"
          /\ AdmittedIn(c) = HALF_OPEN
    ]_vars

\* ------------------------------------------------------------------ C29
\* C29: every event in the output of process_events stores the fingerprint
\* of its current title, start, end, location and description.
C29_HashOfCurrentFields ==
  (request # None /\ process_results.raised = "None") =>
    \A i \in DOMAIN process_results.processed_events :
      LET event == process_results.processed_events[i]
      IN  event.content_hash = update_hash(event).content_hash

\* ------------------------------------------------------------------ C30
\* C30: no two event components of one generated document carry the same
\* UID, whatever distinct events were passed, events of different sources
\* with the same original identifier included.
C30_NoTwoComponentsShareAUid ==
  encoded # None =>
    \A i, j \in DOMAIN EncodedComponents :
      i # j => get(EncodedComponents[i], "UID").value
                 # get(EncodedComponents[j], "UID").value


====
